---------------------------- MODULE Spec2Model ----------------------------
(***************************************************************************)
(* A model of the ATP rankings ingestion and preprocessing code:           *)
(*   - the gap-marker insertion (src/src/preprocess_data.py                *)
(*     insert_nan_for_gaps, src/src/data_loader.py                         *)
(*     preprocess_rankings_with_gaps),                                     *)
(*   - the rankings compaction of preprocess_all,                          *)
(*   - the ingestion drivers (update_rankings, update_tournaments, the     *)
(*     weekly loop of main.py, download_file,                              *)
(*     update_players_from_rankings) and their fetchers.                   *)
(* Each part has its own specification over the shared variables; the      *)
(* variables of the other parts stay at their initial value.               *)
(***************************************************************************)
EXTENDS Integers, Sequences, FiniteSets, TLC

(***************************************************************************)
(* Bounds of the model.                                                    *)
(***************************************************************************)
MaxRows == 3
MaxDay == 3
MaxGapDays == 1
MaxPlayer == 2
MaxName == 2
MaxRank == 2
MaxUnitDay == 1
MaxUnits == 3
MaxYear == 2
MaxType == 2
MaxRuns == 2
MaxEpoch == 2
MaxEvents == 2
MaxDl == 2
MaxDd == 1
MaxDigits == 2
MaxKnown == 2
MaxRawRows == 2
MaxSearchPlayers == 2

(***************************************************************************)
(* Time.  The code computes with datetime64[us] / Timestamp values that    *)
(* are whole days (a ranking_date is parsed from a date-only string); a    *)
(* day holds an even number of microseconds, so halving a difference of    *)
(* whole days is exact.  The model counts time in ticks of half a day.     *)
(***************************************************************************)
TicksPerDay == 2

\* null / None / NaN of a nullable column
Null == 0

VARIABLES
    \* ---- gap insertion ----
    rankings_df,      \* the table handed to the gap function
    gap_result,       \* the table it returned
    gap_call,         \* which function was called, with which max_gap_days
    \* ---- compaction (preprocess_all) ----
    raw_rankings,     \* data/raw/rankings: ranking date -> rows of the unit's csv
    rankings_parquet, \* data/atp_rankings.parquet ("absent" or the table written)
    \* ---- ingestion drivers ----
    driver,           \* the batch function under study
    args,             \* the arguments of the current/last run
    files,            \* the driver's raw directory: unit -> content
    resp,             \* what the source answers for a unit in this epoch
    epoch,            \* version of the source's data
    pc,               \* position of the driver inside its loop body
    idx,              \* index of the unit of the list being processed
    fetched,          \* history: the units requested in this run, in order
    start_files,      \* history: files as they were when this run started
    most_recent_year, \* update_tournaments: computed once per run
    run_no,           \* number of runs started
    prev_run,         \* history: arguments, source epoch and end of the previous run
    paused,           \* history: the run has slept since its last request
    result,           \* history: what the fetcher returned for the last request
    \* ---- scrape_atp_events ----
    page,             \* the events (li) of the results-archive page
    extracted_data,   \* the events the function put out, and whether it was called
    \* ---- rank parsing ----
    rank_text,        \* the Rank text of a scraped row
    rank_parsed,      \* the path that parsed it and the integer it gave
    \* ---- weekly pipeline: map_and_combine_raw_files ----
    players_df,       \* the known players: player_id, first_name, last_name
    page_rows,        \* the rows of the rankings pages the weekly loop scraped
    all_raw,          \* the rows of the raw weekly files
    out_csv,          \* data/cache/atp_rankings_2025.csv
    atp_players_new,  \* data/atp_players_new.csv, the unmapped players
    \* ---- player search ----
    player_search_index, \* term -> list of atp_id, built at startup
    query,            \* the query search_players was called with
    matching_ids,     \* the set it returned
    stage_added,      \* history: what each block of search_players found
    \* ---- the lru_cache of search_players ----
    search_cache,     \* the cached calls, least recently used first
    last_search,      \* history: the last call, what it returned, what the index gave
    index_updates,     \* history: number of players added to the index since startup
    \* ---- tournaments compaction (preprocess_all) ----
    raw_tournaments, \* data/raw/tournaments: (year, type) -> rows of the unit csv
    tournaments_parquet, \* data/atp_tournaments.parquet, and whether it was written
    \* ---- the loaders of data_loader.py ----
    served_players, \* what the repository answers for atp_players.csv
    served_rankings, \* what it answers for atp_rankings_<decade>.csv
    cache_dir, \* the files of data/cache
    load_call, \* history: the last call of a loader and how it ended
    \* ---- tournament-win marker (update_graph) ----
    graph_player_data, \* the rows of the player, sorted by ranking_date
    tournament_end_date, \* the end date of the tournament won
    win_y, \* the rank of the marker, and whether it was computed
    \* ---- reduce_mem_usage ----
    df_column, \* an integer column of the table handed to reduce_mem_usage
    reduced, \* the column it returned, and whether it was called
    \* ---- the players store (update_players_from_rankings) ----
    player_rankings, \* the rows of the ranking files, in the order glob lists them
    players_raw, \* data/raw/players/players_raw.parquet, <<>> when absent
    atp_players_parquet, \* data/atp_players.parquet, and whether it was written
    players_run, \* history: the last run of update_players_from_rankings
    players_runs \* number of runs so far

gapVars == <<rankings_df, gap_result, gap_call>>
compactVars == <<raw_rankings, rankings_parquet>>
ingestVars == <<driver, args, files, resp, epoch, pc, idx, fetched,
                start_files, most_recent_year, run_no, prev_run, paused, result>>
eventsVars == <<page, extracted_data>>
parseVars == <<rank_text, rank_parsed>>
combineVars == <<players_df, page_rows, all_raw, out_csv, atp_players_new>>
searchVars == <<player_search_index, query, matching_ids, stage_added>>
cacheVars == <<search_cache, last_search, index_updates>>
tourVars == <<raw_tournaments, tournaments_parquet>>
loadVars == <<served_players, served_rankings, cache_dir, load_call>>
rankVars == <<graph_player_data, tournament_end_date, win_y>>
memVars == <<df_column, reduced>>
playersVars == <<player_rankings, players_raw, atp_players_parquet, players_run, players_runs>>
appVars == <<cacheVars, tourVars, loadVars, rankVars, memVars, playersVars>>
funVars == <<eventsVars, parseVars, combineVars, searchVars, appVars>>
vars == <<gapVars, compactVars, ingestVars, funVars>>

(***************************************************************************)
(* Generic helpers.                                                        *)
(***************************************************************************)
Range(s) == {s[i] : i \in 1..Len(s)}

SetMin(S) == CHOOSE x \in S : \A y \in S : x <= y

SetMax(S) == CHOOSE x \in S : \A y \in S : y <= x

RECURSIVE Flatten(_)
Flatten(ss) == IF ss = <<>> THEN <<>> ELSE Head(ss) \o Flatten(Tail(ss))

RECURSIVE SetToSeq(_)
SetToSeq(S) ==
    IF S = {} THEN <<>>
    ELSE LET x == CHOOSE y \in S : TRUE IN <<x>> \o SetToSeq(S \ {x})

(***************************************************************************)
(* Tables.  A table is a sequence of rows; a row is a record               *)
(*   id           atp_id (polars table) / player_id (pandas table)         *)
(*   ranking_date in ticks                                                 *)
(*   rank         Null in a gap marker                                     *)
(*   atp_name     name slug                                                *)
(*   points       stands for any further column of the table               *)
(***************************************************************************)
Days == 0..MaxDay
Players == 1..MaxPlayer
Names == 1..MaxName
Ranks == 1..MaxRank
Points == {1}

Row(i, d, r, n, p) ==
    [id |-> i, ranking_date |-> d, rank |-> r, atp_name |-> n, points |-> p]

\* scraped observations: a row with a player link has id and slug, one without has neither
RealRows ==
    {Row(i, d * TicksPerDay, r, n, p) :
        i \in Players, d \in Days, r \in Ranks, n \in Names, p \in Points}
    \cup {Row(Null, d * TicksPerDay, r, Null, p) : d \in Days, r \in Ranks, p \in Points}

\* sort(["atp_id", "ranking_date"]): nulls first, then ascending
RowLE(a, b) ==
    \/ a.id < b.id
    \/ a.id = b.id /\ a.ranking_date <= b.ranking_date

RECURSIVE InsertSorted(_, _)
InsertSorted(r, s) ==
    IF s = <<>> THEN <<r>>
    ELSE IF RowLE(Head(s), r) THEN <<Head(s)>> \o InsertSorted(r, Tail(s))
    ELSE <<r>> \o s

RECURSIVE SortRows(_)
SortRows(s) ==
    IF s = <<>> THEN <<>>
    ELSE InsertSorted(s[Len(s)], SortRows(SubSeq(s, 1, Len(s) - 1)))

IsSortedRows(s) == \A i \in 1..(Len(s) - 1) : RowLE(s[i], s[i + 1])

\* bag of rows of a table, as a function row -> count over the rows present
RowCount(s, r) == Cardinality({i \in 1..Len(s) : s[i] = r})

SameRows(s, t) ==
    /\ Len(s) = Len(t)
    /\ \A r \in Range(s) \cup Range(t) : RowCount(s, r) = RowCount(t, r)

(***************************************************************************)
(* insert_nan_for_gaps (polars), preprocess_data.py.                       *)
(***************************************************************************)
\* rankings_df.get_column("atp_id").unique()
UniqueIds(df) == {df[i].id : i \in 1..Len(df)}

\* rankings_df.filter(pl.col("atp_id") == atp_id): a comparison with null
\* is null, so the group of the null id is empty
FilterId(df, atp_id) ==
    SelectSeq(df, LAMBDA r : atp_id # Null /\ r.id # Null /\ r.id = atp_id)

\* group.get_column("atp_name").unique(): the values atp_names[0] can be
\* (unique() keeps no order); None when the table has no name at all
AtpNameChoices(group) ==
    IF group = <<>> THEN {Null} ELSE {group[i].atp_name : i \in 1..Len(group)}

\* gap = (dates[i] - dates[i-1]) / np.timedelta64(1, 'D');  gap > max_gap_days
\* (a float quotient: compared exactly, without rounding to whole days)
GapExceedsStrictOff(d1, d2, max_gap) == (d2 - d1) >= max_gap * TicksPerDay

GapExceeds(d1, d2, max_gap) == (d2 - d1) > max_gap * TicksPerDay

\* dates[i-1] + (dates[i] - dates[i-1]) / 2: timedelta64 / 2 is an integer division
MidDate(d1, d2) == d1 + ((d2 - d1) \div 2)

\* the marker built at preprocess_data.py:104-109; the remaining columns are
\* filled with pl.lit(None) (lines 117-119)
NanRowKeepingPoints(atp_id, atp_name, mid_date) ==
    Row(atp_id, mid_date, Null, atp_name, 1)

NanRow(atp_id, atp_name, mid_date) ==
    Row(atp_id, mid_date, Null, atp_name, Null)

\* the inner loop, for i in range(1, len(dates))
RECURSIVE GroupNewRows(_, _, _, _)
GroupNewRows(group, i, max_gap, atp_name) ==
    IF i > Len(group) THEN <<>>
    ELSE (IF GapExceeds(group[i - 1].ranking_date, group[i].ranking_date, max_gap)
          THEN <<NanRow(group[i].id, atp_name,
                        MidDate(group[i - 1].ranking_date, group[i].ranking_date))>>
          ELSE <<>>)
         \o GroupNewRows(group, i + 1, max_gap, atp_name)

\* the outer loop over the ids; pick[id] is the value atp_names[0] took
RECURSIVE NewRows(_, _, _, _)
NewRows(df, ids, max_gap, pick) ==
    IF ids = {} THEN <<>>
    ELSE LET atp_id == SetMin(ids)
         IN  GroupNewRows(FilterId(df, atp_id), 2, max_gap, pick[atp_id])
             \o NewRows(df, ids \ {atp_id}, max_gap, pick)

InsertNanUnsorted(df, max_gap, pick) ==
    LET sorted == SortRows(df)
    IN  sorted \o NewRows(sorted, UniqueIds(sorted), max_gap, pick)

insert_nan_for_gaps(df, max_gap, pick) ==
    LET sorted == SortRows(df)
        new_rows == NewRows(sorted, UniqueIds(sorted), max_gap, pick)
    IN  IF new_rows # <<>> THEN SortRows(sorted \o new_rows) ELSE sorted

\* the choices of atp_names[0], one per id
NamePicks(df) ==
    {pick \in [UniqueIds(df) -> Names \cup {Null}] :
        \A i \in UniqueIds(df) : pick[i] \in AtpNameChoices(FilterId(df, i))}

(***************************************************************************)
(* preprocess_rankings_with_gaps (pandas), data_loader.py.                 *)
(***************************************************************************)
\* processed_df['player_id'].unique(): in order of first appearance
RECURSIVE UniqueInOrder(_, _)
UniqueInOrder(df, seen) ==
    IF df = <<>> THEN <<>>
    ELSE IF Head(df).id \in seen THEN UniqueInOrder(Tail(df), seen)
    ELSE <<Head(df).id>> \o UniqueInOrder(Tail(df), seen \cup {Head(df).id})

\* player_data['ranking_date'].diff().dt.days > max_gap_days: whole days, floored
DateDiffExceeds(d1, d2, max_gap) == ((d2 - d1) \div TicksPerDay) > max_gap

\* rows_to_add: player_id, ranking_date, rank NaN; concat fills the other columns with NaN
RECURSIVE RowsToAdd(_, _, _)
RowsToAdd(player_data, i, max_gap) ==
    IF i > Len(player_data) THEN <<>>
    ELSE (IF DateDiffExceeds(player_data[i - 1].ranking_date,
                             player_data[i].ranking_date, max_gap)
          THEN <<Row(player_data[i].id,
                     player_data[i - 1].ranking_date
                        + ((player_data[i].ranking_date
                            - player_data[i - 1].ranking_date) \div 2),
                     Null, Null, Null)>>
          ELSE <<>>)
         \o RowsToAdd(player_data, i + 1, max_gap)

\* the body of the loop over player_ids (data_loader.py:412-460)
PlayerWithGaps(df, player_id, max_gap) ==
    LET player_data == SortRows(SelectSeq(df, LAMBDA r : r.id = player_id))
    IN  IF Len(player_data) <= 1 THEN player_data
        ELSE LET rows_to_add == RowsToAdd(player_data, 2, max_gap)
             IN  IF rows_to_add = <<>> THEN player_data
                 ELSE SortRows(player_data \o rows_to_add)

preprocess_rankings_with_gaps(df, max_gap) ==
    LET player_ids == UniqueInOrder(df, {})
    IN  Flatten([k \in 1..Len(player_ids) |-> PlayerWithGaps(df, player_ids[k], max_gap)])

(***************************************************************************)
(* The gap functions as operations: a table is built row by row, then one  *)
(* of the two functions is applied to it.                                  *)
(***************************************************************************)
GapInit ==
    /\ rankings_df = <<>>
    /\ gap_result = <<>>
    /\ gap_call = [fn |-> "none", max_gap_days |-> 0]

GapAddRow(r) ==
    /\ gap_call.fn = "none"
    /\ Len(rankings_df) < MaxRows
    /\ rankings_df' = Append(rankings_df, r)
    /\ UNCHANGED <<gap_result, gap_call>>

CallInsertNanForGaps(max_gap, pick) ==
    /\ gap_call.fn = "none"
    /\ gap_result' = insert_nan_for_gaps(rankings_df, max_gap, pick)
    /\ gap_call' = [fn |-> "insert_nan_for_gaps", max_gap_days |-> max_gap]
    /\ UNCHANGED rankings_df

\* load_rankings reads player ids with dtype int32: the pandas table has no null id
CallPreprocessRankingsWithGaps(max_gap) ==
    /\ gap_call.fn = "none"
    /\ \A i \in 1..Len(rankings_df) : rankings_df[i].id # Null
    /\ gap_result' = preprocess_rankings_with_gaps(rankings_df, max_gap)
    /\ gap_call' = [fn |-> "preprocess_rankings_with_gaps", max_gap_days |-> max_gap]
    /\ UNCHANGED rankings_df


(***************************************************************************)
(* Rankings compaction: the rankings section of preprocess_all,            *)
(* preprocess_data.py:163-202.                                             *)
(*                                                                         *)
(* A raw unit is the csv of one ranking date, as update_rankings wrote it: *)
(* the rows of the page, each with the Rank text, the atp_id and atp_name  *)
(* taken from the profile link (both empty without one) and the unit's     *)
(* date in the ranking_date column.  A text is a sequence of characters.   *)
(***************************************************************************)
DigitChars == <<"0", "1", "2", "3", "4", "5", "6", "7", "8", "9">>

IsDigit(c) == \E k \in 1..Len(DigitChars) : DigitChars[k] = c

DigitVal(c) == (CHOOSE k \in 1..Len(DigitChars) : DigitChars[k] = c) - 1

\* the Rank texts of the model: the ranks, and the first rank with a tie marker
RankTexts == {<<DigitChars[r + 1]>> : r \in Ranks} \cup {<<DigitChars[2], "T">>}

\* str.replace("T", ""): the first occurrence only (polars' str.replace is not replace_all)
RECURSIVE StrReplaceT(_)
StrReplaceT(s) ==
    IF s = <<>> THEN <<>>
    ELSE IF Head(s) = "T" THEN Tail(s)
    ELSE <<Head(s)>> \o StrReplaceT(Tail(s))

RECURSIVE DecimalValue(_, _)
DecimalValue(s, acc) ==
    IF s = <<>> THEN acc ELSE DecimalValue(Tail(s), 10 * acc + DigitVal(Head(s)))

Int16Max == 32767

\* cast(pl.Int16), strict: a text that is no number in range raises
CastInt16(s) ==
    IF s # <<>> /\ (\A k \in 1..Len(s) : IsDigit(s[k])) /\ DecimalValue(s, 0) <= Int16Max
    THEN DecimalValue(s, 0)
    ELSE "raise"

\* the ranking dates that have a unit
UnitDays == 0..MaxUnitDay

RawRow(rk, i, n, d) == [Rank |-> rk, atp_id |-> i, atp_name |-> n, ranking_date |-> d]

\* the rows a unit of date d can hold
RawRowsOf(d) ==
    {RawRow(rk, i, n, d) : rk \in RankTexts, i \in Players, n \in Names}
    \cup {RawRow(rk, Null, Null, d) : rk \in RankTexts}

RawUnitsOf(d) ==
    {<<a>> : a \in RawRowsOf(d)} \cup {<<a, b>> : a \in RawRowsOf(d), b \in RawRowsOf(d)}

\* glob + read_csv + concat of the units present
ConcatUnits(raw) == Flatten([k \in 1..Len(raw) |-> raw[k]])

\* select(keep_cols).unique(): whole-row duplicates go, the Rank text still as scraped;
\* unique() promises no order
UniqueRawRows(all_rows) == SetToSeq(Range(all_rows))

\* str.to_datetime() of the date-only text
ToDatetime(d) == d * TicksPerDay

\* lines 188-196: ranking_date to datetime, rank text to Int16
ConvertRow(r) ==
    Row(r.atp_id, ToDatetime(r.ranking_date), CastInt16(StrReplaceT(r.Rank)), r.atp_name, Null)

\* the table handed to insert_nan_for_gaps at line 199
RankingsBeforeGaps(raw) ==
    LET u == UniqueRawRows(ConcatUnits(raw))
    IN  [k \in 1..Len(u) |-> ConvertRow(u[k])]

CompactInit ==
    /\ raw_rankings = [d \in 1..(MaxUnitDay + 1) |-> <<>>]
    /\ rankings_parquet = "absent"

TotalRawRows == Len(ConcatUnits(raw_rankings))

\* update_rankings saved the unit of day d (a non-empty table, one file per date)
WriteRawUnit(d, rows) ==
    /\ rankings_parquet = "absent"
    /\ raw_rankings[d + 1] = <<>>
    /\ TotalRawRows + Len(rows) <= MaxRows
    /\ raw_rankings' = [raw_rankings EXCEPT ![d + 1] = rows]
    /\ UNCHANGED rankings_parquet

\* preprocess_all(max_gap_days), rankings section
PreprocessAll(max_gap, pick) ==
    /\ rankings_parquet = "absent"
    /\ ConcatUnits(raw_rankings) # <<>>
    /\ rankings_parquet' = insert_nan_for_gaps(RankingsBeforeGaps(raw_rankings), max_gap, pick)
    /\ UNCHANGED raw_rankings

(***************************************************************************)
(* Initial values of the other parts.                                      *)
(***************************************************************************)
CompactIdle ==
    /\ raw_rankings = <<>>
    /\ rankings_parquet = "absent"

IngestIdle ==
    /\ driver = "none"
    /\ args = <<>>
    /\ files = <<>>
    /\ resp = <<>>
    /\ epoch = 1
    /\ pc = "idle"
    /\ idx = 0
    /\ fetched = <<>>
    /\ start_files = [files |-> <<>>, epoch |-> 1]
    /\ most_recent_year = Null
    /\ run_no = 0
    /\ prev_run = <<>>
    /\ paused = FALSE
    /\ result = "unset"

EventsIdle ==
    /\ page = <<>>
    /\ extracted_data = [called |-> FALSE, events |-> <<>>]

ParseIdle ==
    /\ rank_text = <<>>
    /\ rank_parsed = [path |-> "none", rank |-> 0]

CombineIdle ==
    /\ players_df = <<>>
    /\ page_rows = <<>>
    /\ all_raw = <<>>
    /\ out_csv = [written |-> FALSE, rows |-> <<>>]
    /\ atp_players_new = [written |-> FALSE, names |-> <<>>]

SearchIdle ==
    /\ player_search_index = <<>>
    /\ query = <<>>
    /\ matching_ids = {}
    /\ stage_added = [starts |-> {}, parts |-> {}, contains |-> {}, partial |-> {}]

CacheIdle ==
    /\ search_cache = <<>>
    /\ last_search = [called |-> FALSE, query |-> <<>>, returned |-> {}, computed |-> {}]
    /\ index_updates = 0

TournamentsIdle ==
    /\ raw_tournaments = <<>>
    /\ tournaments_parquet = [written |-> FALSE, rows |-> <<>>]

LoadIdle ==
    /\ served_players = [error |-> TRUE, body |-> <<>>]
    /\ served_rankings = <<>>
    /\ cache_dir = <<>>
    /\ load_call = <<>>

RankIdle ==
    /\ graph_player_data = <<>>
    /\ tournament_end_date = 0
    /\ win_y = [called |-> FALSE, y |-> [none |-> TRUE, num |-> 0, den |-> 1]]

MemIdle ==
    /\ df_column = [name |-> "", dtype |-> 64, values |-> <<>>]
    /\ reduced = [called |-> FALSE, column |-> [name |-> "", dtype |-> 64, values |-> <<>>]]

PlayersIdle ==
    /\ player_rankings = <<>>
    /\ players_raw = <<>>
    /\ atp_players_parquet = [written |-> FALSE, rows |-> <<>>]
    /\ players_run = <<>>
    /\ players_runs = 0

AppIdle == CacheIdle /\ TournamentsIdle /\ LoadIdle /\ RankIdle /\ MemIdle /\ PlayersIdle

FunIdle == EventsIdle /\ ParseIdle /\ CombineIdle /\ SearchIdle /\ AppIdle

(***************************************************************************)
(* Ingestion drivers.                                                      *)
(*                                                                         *)
(*   update_rankings     atp_ranking_scraper.py:113-142, one unit per date *)
(*   update_tournaments  atp_tournament_scraper.py:176-212, one unit per   *)
(*                       (year, tournament type)                           *)
(*   main_weekly         main.py:49-58 with scrape_atp_rankings_raw, one   *)
(*                       unit per Monday                                   *)
(*   download_file       data_loader.py:18-40, one file                    *)
(*   update_players      atp_player_scraper.py:117-223                     *)
(*                       (update_players_from_rankings), one unit per      *)
(*                       player profile, all saved together at the end     *)
(*                                                                         *)
(* A behaviour follows one driver through several runs over its own raw    *)
(* directory.  The source answers a request for a unit with                *)
(*   "error"   an HTTP error status or a network failure (the request or   *)
(*             raise_for_status raises)                                    *)
(*   "absent"  a page without the expected table                           *)
(*   "empty"   the table, with no rows                                     *)
(*   "rows"    the table with rows                                         *)
(* and answers the same to every request for that unit until it changes    *)
(* (a new epoch); it changes only between runs.  A file is "absent" or     *)
(* holds the epoch of the data written and whether the write completed.    *)
(***************************************************************************)
Drivers == {"update_rankings", "update_tournaments", "main_weekly", "download_file",
            "update_players"}

RespKinds == {"error", "absent", "empty", "rows"}

Years == 1..MaxYear
Types == 1..MaxType

Keys(drv) ==
    IF drv = "update_tournaments" THEN Years \X Types
    ELSE IF drv = "download_file" THEN {1}
    ELSE 1..MaxUnits

\* for year in years: for tournament_type in tournament_types
UnitList(years, types) ==
    Flatten([i \in 1..Len(years) |-> [j \in 1..Len(types) |-> <<years[i], types[j]>>]])

YearLists == {<<y>> : y \in Years} \cup {[i \in 1..MaxYear |-> i]}
TypeLists == {[i \in 1..n |-> i] : n \in 1..MaxType}

Args(list, force, years, types, max_players) ==
    [list |-> list, force |-> force, years |-> years, types |-> types,
     max_players |-> max_players]

\* no file under the unit's name / no row for the player in players_raw.parquet
Absent == [ver |-> Null, complete |-> FALSE]

\* os.path.exists(out_path) / local_path.exists() / atp_id in known_ids
Exists(content) == content # Absent

\* update_players_from_rankings: the players of the rankings files that are
\* not in players_raw.parquet, the max_players first of them.  Players are
\* numbered in the order of prioritize_players; max_players = None gives the
\* list that a limit of the number of players gives
NewUrlsWithIds(fs, max_players) ==
    LET new == SelectSeq([u \in 1..MaxUnits |-> u], LAMBDA u : ~Exists(fs[u]))
    IN  IF Len(new) > max_players THEN SubSeq(new, 1, max_players) ELSE new

\* the arguments a run can be started with
ArgChoices(drv) ==
    IF drv = "update_tournaments"
    THEN {Args(UnitList(ys, ts), FALSE, ys, ts, Null) : ys \in YearLists, ts \in TypeLists}
    ELSE IF drv = "download_file"
    THEN {Args(<<1>>, f, <<>>, <<>>, Null) : f \in BOOLEAN}
    ELSE IF drv = "update_players"
    THEN {Args(NewUrlsWithIds(files, n), FALSE, <<>>, <<>>, n) : n \in 1..MaxUnits}
    ELSE {Args([i \in 1..MaxUnits |-> i], FALSE, <<>>, <<>>, Null)}

FileOf(ver, complete) == [ver |-> ver, complete |-> complete]

YearOf(u) == u[1]

\* find_most_recent_year_with_files: the highest year directory holding a
\* tournaments_*_raw.csv file, whatever its type; None without any
FindOldestYearWithFiles(fs) ==
    LET with == {y \in Years : \E t \in Types : Exists(fs[<<y, t>>])}
    IN  IF with = {} THEN Null ELSE SetMin(with)

find_most_recent_year_with_files(fs) ==
    LET with == {y \in Years : \E t \in Types : Exists(fs[<<y, t>>])}
    IN  IF with = {} THEN Null ELSE SetMax(with)

(***************************************************************************)
(* The fetchers: what each returns for an answer of the source.            *)
(*   "raise"  an exception leaves the function                             *)
(*   "None"   the not-found value                                          *)
(*   "empty"  a table without rows                                         *)
(*   "rows"   a table with rows / a details dict / the path of the file    *)
(***************************************************************************)
\* raise_for_status raises; no table: return None; a table without rows is
\* returned as an empty DataFrame
scrape_atp_rankings_by_date(r) ==
    CASE r = "error" -> "raise"
      [] r = "absent" -> "None"
      [] r = "empty" -> "empty"
      [] OTHER -> "rows"

\* raise_for_status raises; without a ul of events extracted_data stays empty
\* and an empty DataFrame is returned
scrape_atp_events(r) ==
    CASE r = "error" -> "raise"
      [] r \in {"absent", "empty"} -> "empty"
      [] OTHER -> "rows"

\* raise_for_status raises; table = soup.find(...) is None without the table
\* and table.find("tr") raises AttributeError
scrape_atp_rankings_raw(r) ==
    CASE r \in {"error", "absent"} -> "raise"
      [] r = "empty" -> "empty"
      [] OTHER -> "rows"

\* every exception is caught inside and None returned; no pd_content: None;
\* a pd_content without entries still gives a dict with atp_name and atp_id
scrape_atp_player_details(r) ==
    IF r \in {"error", "absent"} THEN "None" ELSE "rows"

\* raise_for_status raises; any body is a file
download_file(r) == IF r = "error" THEN "raise" ELSE "rows"

\* the fetcher a driver calls
Fetcher(drv, r) ==
    CASE drv = "update_rankings" -> scrape_atp_rankings_by_date(r)
      [] drv = "update_tournaments" -> scrape_atp_events(r)
      [] drv = "main_weekly" -> scrape_atp_rankings_raw(r)
      [] drv = "update_players" -> scrape_atp_player_details(r)
      [] OTHER -> download_file(r)

IngestInit ==
    /\ driver \in Drivers
    /\ args = <<>>
    /\ files = [u \in Keys(driver) |-> Absent]
    /\ resp = [u \in Keys(driver) |-> "unseen"]
    /\ epoch = 1
    /\ pc = "idle"
    /\ idx = 0
    /\ fetched = <<>>
    /\ start_files = [files |-> files, epoch |-> epoch]
    /\ most_recent_year = Null
    /\ run_no = 0
    /\ prev_run = <<>>
    /\ paused = FALSE
    /\ result = "unset"

\* the unit of this iteration
Cur == args.list[idx]

Running == pc \in {"loop", "write", "writing", "sleep", "save"}

\* the units this run requested without getting data, that had no file (no
\* player row) when the run started
FailedUnits ==
    {u \in Range(fetched) :
        /\ Fetcher(driver, resp[u]) \in {"raise", "None", "empty"}
        /\ ~Exists(start_files.files[u])}

\* a driver is invoked
StartRun(a) ==
    /\ pc \in {"idle", "done", "aborted", "crashed"}
    /\ run_no < MaxRuns
    /\ a \in ArgChoices(driver)
    /\ run_no' = run_no + 1
    /\ prev_run' = IF run_no = 0 THEN <<>>
                   ELSE <<[args |-> args, epoch |-> start_files.epoch, ended |-> pc,
                           failed |-> FailedUnits]>>
    /\ args' = a
    /\ idx' = 1
    /\ pc' = IF a.list = <<>> THEN "save" ELSE "loop"
    /\ fetched' = <<>>
    /\ start_files' = [files |-> files, epoch |-> epoch]
    /\ most_recent_year' =
          IF driver = "update_tournaments"
          THEN find_most_recent_year_with_files(files) ELSE Null
    /\ paused' = FALSE
    /\ result' = "unset"
    /\ UNCHANGED <<driver, files, resp, epoch>>

\* the source's data changes between two runs
SourceChanges ==
    /\ pc \in {"done", "aborted", "crashed"}
    /\ epoch < MaxEpoch
    /\ epoch' = epoch + 1
    /\ resp' = [u \in Keys(driver) |-> "unseen"]
    /\ UNCHANGED <<driver, args, files, pc, idx, fetched, start_files,
                   most_recent_year, run_no, prev_run, paused, result>>

\* the process is killed in the middle of a run
Crash ==
    /\ Running
    /\ pc' = "crashed"
    /\ UNCHANGED <<driver, args, files, resp, epoch, idx, fetched, start_files,
                   most_recent_year, run_no, prev_run, paused, result>>

\* the loop goes to its next unit, or the function returns
NextUnit ==
    /\ idx' = idx + 1
    /\ pc' = IF idx < Len(args.list) THEN "loop" ELSE "done"

\* requests.get for the current unit, answered r; the fetcher returns
Request(r) ==
    /\ r \in RespKinds
    /\ resp[Cur] \in {"unseen", r}
    /\ resp' = [resp EXCEPT ![Cur] = r]
    /\ fetched' = Append(fetched, Cur)
    /\ paused' = FALSE
    /\ result' = Fetcher(driver, r)

\* to_csv / open(path, "wb") creates (or truncates) the file under its final name ...
WriteOpen ==
    /\ pc = "write"
    /\ files' = [files EXCEPT ![Cur] = FileOf(epoch, FALSE)]
    /\ pc' = "writing"
    /\ UNCHANGED <<driver, args, resp, epoch, idx, fetched, start_files,
                   most_recent_year, run_no, prev_run, paused, result>>

\* ---- update_rankings ----
RankingsSkipNever(u) == FALSE

\* if os.path.exists(out_path): continue
RankingsSkip(u) == Exists(files[u])

UpdateRankingsSkip ==
    /\ driver = "update_rankings" /\ pc = "loop"
    /\ RankingsSkip(Cur)
    /\ NextUnit
    /\ UNCHANGED <<driver, args, files, resp, epoch, fetched, start_files,
                   most_recent_year, run_no, prev_run, paused, result>>

UpdateRankingsScrapeNoSave(r) ==
    /\ driver = "update_rankings" /\ pc = "loop"
    /\ ~RankingsSkip(Cur)
    /\ Request(r)
    /\ pc' = IF r = "error" THEN "aborted" ELSE "sleep"
    /\ UNCHANGED <<driver, args, files, epoch, idx, start_files,
                   most_recent_year, run_no, prev_run>>

\* df = scrape_atp_rankings_by_date(date): an exception leaves update_rankings,
\* None or an empty table is not saved
UpdateRankingsScrape(r) ==
    /\ driver = "update_rankings" /\ pc = "loop"
    /\ ~RankingsSkip(Cur)
    /\ Request(r)
    /\ pc' = CASE scrape_atp_rankings_by_date(r) = "raise" -> "aborted"
               [] scrape_atp_rankings_by_date(r) = "rows" -> "write"
               [] OTHER -> "sleep"
    /\ UNCHANGED <<driver, args, files, epoch, idx, start_files,
                   most_recent_year, run_no, prev_run>>

\* ---- update_tournaments ----
TournamentsSkipAllCached(u) == Exists(files[u])

\* if os.path.exists(output_path) and year != most_recent_year: continue
TournamentsSkip(u) == Exists(files[u]) /\ YearOf(u) # most_recent_year

UpdateTournamentsSkip ==
    /\ driver = "update_tournaments" /\ pc = "loop"
    /\ TournamentsSkip(Cur)
    /\ NextUnit
    /\ UNCHANGED <<driver, args, files, resp, epoch, fetched, start_files,
                   most_recent_year, run_no, prev_run, paused, result>>

UpdateTournamentsScrapeSaveEmpty(r) ==
    /\ driver = "update_tournaments" /\ pc = "loop"
    /\ ~TournamentsSkip(Cur)
    /\ Request(r)
    /\ pc' = IF scrape_atp_events(r) \in {"rows", "empty"} THEN "write" ELSE "sleep"
    /\ UNCHANGED <<driver, args, files, epoch, idx, start_files,
                   most_recent_year, run_no, prev_run>>

UpdateTournamentsScrapeRemoveFirst(r) ==
    /\ driver = "update_tournaments" /\ pc = "loop"
    /\ ~TournamentsSkip(Cur)
    /\ Request(r)
    /\ files' = [files EXCEPT ![Cur] = Absent]
    /\ pc' = IF scrape_atp_events(r) = "rows" THEN "write" ELSE "sleep"
    /\ UNCHANGED <<driver, args, epoch, idx, start_files,
                   most_recent_year, run_no, prev_run>>

\* try: df = scrape_atp_events(...) except Exception: logged; an empty df is not saved
UpdateTournamentsScrape(r) ==
    /\ driver = "update_tournaments" /\ pc = "loop"
    /\ ~TournamentsSkip(Cur)
    /\ Request(r)
    /\ pc' = IF scrape_atp_events(r) = "rows" THEN "write" ELSE "sleep"
    /\ UNCHANGED <<driver, args, files, epoch, idx, start_files,
                   most_recent_year, run_no, prev_run>>

\* ---- main.py weekly loop ----
WeeklySkipNever(u) == FALSE

\* if not os.path.exists(raw_path)
WeeklySkip(u) == Exists(files[u])

MainWeeklySkip ==
    /\ driver = "main_weekly" /\ pc = "loop"
    /\ WeeklySkip(Cur)
    /\ NextUnit
    /\ UNCHANGED <<driver, args, files, resp, epoch, fetched, start_files,
                   most_recent_year, run_no, prev_run, paused, result>>

\* try: scrape_atp_rankings_raw(week_date) except Exception: logged.  The
\* fetcher saves whatever table it got; the loop goes on without a pause
MainWeeklyScrape(r) ==
    /\ driver = "main_weekly" /\ pc = "loop"
    /\ ~WeeklySkip(Cur)
    /\ Request(r)
    /\ IF scrape_atp_rankings_raw(r) = "raise"
       THEN NextUnit
       ELSE pc' = "write" /\ idx' = idx
    /\ UNCHANGED <<driver, args, files, epoch, start_files,
                   most_recent_year, run_no, prev_run>>

\* ---- download_file ----
\* if local_path.exists() and not force_download: return local_path
DownloadSkip(u) == Exists(files[u]) /\ ~args.force

DownloadFileCached ==
    /\ driver = "download_file" /\ pc = "loop"
    /\ DownloadSkip(Cur)
    /\ NextUnit
    /\ UNCHANGED <<driver, args, files, resp, epoch, fetched, start_files,
                   most_recent_year, run_no, prev_run, paused, result>>

\* requests.get; raise_for_status raises to the caller; any body is saved
DownloadFileGet(r) ==
    /\ driver = "download_file" /\ pc = "loop"
    /\ ~DownloadSkip(Cur)
    /\ Request(r)
    /\ pc' = IF download_file(r) = "raise" THEN "aborted" ELSE "write"
    /\ UNCHANGED <<driver, args, files, epoch, idx, start_files,
                   most_recent_year, run_no, prev_run>>

\* ---- update_players_from_rankings ----
\* for url, _ in new_urls_with_ids: details = asyncio.run(scrape_atp_player_details(url));
\* the next url follows at once; after the last one the table is saved
UpdatePlayersScrape(r) ==
    /\ driver = "update_players" /\ pc = "loop"
    /\ Request(r)
    /\ idx' = idx + 1
    /\ pc' = IF idx < Len(args.list) THEN "loop" ELSE "save"
    /\ UNCHANGED <<driver, args, files, epoch, start_files,
                   most_recent_year, run_no, prev_run>>

\* the details collected in this run: if details: new_players.append(details)
NewPlayers == {u \in Range(fetched) : scrape_atp_player_details(resp[u]) = "rows"}

\* if new_players: combined.to_parquet(players_parquet)
UpdatePlayersSave ==
    /\ driver = "update_players" /\ pc = "save"
    /\ files' = [u \in Keys(driver) |->
                    IF u \in NewPlayers THEN FileOf(epoch, TRUE) ELSE files[u]]
    /\ pc' = "done"
    /\ UNCHANGED <<driver, args, resp, epoch, idx, fetched, start_files,
                   most_recent_year, run_no, prev_run, paused, result>>

\* ... and the rows follow; the file is complete when it is closed.  The
\* drivers that pause do so next, the others go on
WriteClose ==
    /\ pc = "writing"
    /\ files' = [files EXCEPT ![Cur] = FileOf(epoch, TRUE)]
    /\ IF driver \in {"update_rankings", "update_tournaments"}
       THEN pc' = "sleep" /\ idx' = idx
       ELSE NextUnit
    /\ UNCHANGED <<driver, args, resp, epoch, fetched, start_files,
                   most_recent_year, run_no, prev_run, paused, result>>

\* time.sleep(sleep_sec) at the end of the loop body
Sleep ==
    /\ pc = "sleep"
    /\ NextUnit
    /\ paused' = TRUE
    /\ UNCHANGED <<driver, args, files, resp, epoch, fetched, start_files,
                   most_recent_year, run_no, prev_run, result>>

\* the ingestion steps leave the tables of the other parts alone
IngestFrame == UNCHANGED <<gapVars, compactVars, funVars>>

SpecIngestNext ==
    \/ \E a \in ArgChoices(driver) : StartRun(a) /\ IngestFrame
    \/ SourceChanges /\ IngestFrame
    \/ Crash /\ IngestFrame
    \/ UpdateRankingsSkip /\ IngestFrame
    \/ \E r \in RespKinds : UpdateRankingsScrape(r) /\ IngestFrame
    \/ UpdateTournamentsSkip /\ IngestFrame
    \/ \E r \in RespKinds : UpdateTournamentsScrape(r) /\ IngestFrame
    \/ MainWeeklySkip /\ IngestFrame
    \/ \E r \in RespKinds : MainWeeklyScrape(r) /\ IngestFrame
    \/ DownloadFileCached /\ IngestFrame
    \/ \E r \in RespKinds : DownloadFileGet(r) /\ IngestFrame
    \/ \E r \in RespKinds : UpdatePlayersScrape(r) /\ IngestFrame
    \/ UpdatePlayersSave /\ IngestFrame
    \/ WriteOpen /\ IngestFrame
    \/ WriteClose /\ IngestFrame
    \/ Sleep /\ IngestFrame

SpecIngestInit == GapInit /\ CompactIdle /\ IngestInit /\ FunIdle

SpecIngest == SpecIngestInit /\ [][SpecIngestNext]_vars

(***************************************************************************)
(* Specification of the gap functions.                                     *)
(***************************************************************************)
SpecGapInit == GapInit /\ CompactIdle /\ IngestIdle /\ FunIdle

SpecGapNext ==
    \/ \E r \in RealRows : GapAddRow(r) /\ UNCHANGED <<compactVars, ingestVars, funVars>>
    \/ \E g \in 0..MaxGapDays : \E pick \in NamePicks(rankings_df) :
          CallInsertNanForGaps(g, pick) /\ UNCHANGED <<compactVars, ingestVars, funVars>>
    \/ \E g \in 0..MaxGapDays :
          CallPreprocessRankingsWithGaps(g) /\ UNCHANGED <<compactVars, ingestVars, funVars>>

SpecGap == SpecGapInit /\ [][SpecGapNext]_vars

(***************************************************************************)
(* Claims about the gap functions.                                         *)
(***************************************************************************)
\* the observations of player p in the input table, by date
ObservationsOf(p) == SortRows(SelectSeq(rankings_df, LAMBDA r : r.id = p))

\* positions of the result holding a null-rank row of player p dated strictly between d1 and d2
MarkersBetween(p, d1, d2) ==
    {k \in 1..Len(gap_result) :
        /\ gap_result[k].id = p
        /\ gap_result[k].rank = Null
        /\ d1 < gap_result[k].ranking_date
        /\ gap_result[k].ranking_date < d2}

\* C1: for every player and every pair of chronologically consecutive
\* observations, the result holds exactly one null-rank row between them, at
\* the arithmetic midpoint of the two dates, when the gap in days is strictly
\* greater than max_gap_days, and none when it is less or equal.
C1_GapInsertion ==
    gap_call.fn # "none" =>
        \A p \in Players :
            LET obs == ObservationsOf(p)
            IN  \A i \in 1..(Len(obs) - 1) :
                    LET d1 == obs[i].ranking_date
                        d2 == obs[i + 1].ranking_date
                        m == MarkersBetween(p, d1, d2)
                    IN  IF d2 - d1 > gap_call.max_gap_days * TicksPerDay
                        THEN /\ Cardinality(m) = 1
                             /\ \A k \in m : 2 * gap_result[k].ranking_date = d1 + d2
                        ELSE m = {}

\* a call where one pair of a player exceeds the threshold and got its marker
\* and another pair of distinct dates does not exceed it
C1_Witness ==
    /\ gap_call.fn # "none"
    /\ \E p \in Players :
          LET obs == ObservationsOf(p)
          IN  /\ \E i \in 1..(Len(obs) - 1) :
                    /\ obs[i + 1].ranking_date - obs[i].ranking_date
                          > gap_call.max_gap_days * TicksPerDay
                    /\ MarkersBetween(p, obs[i].ranking_date, obs[i + 1].ranking_date) # {}
              /\ \E i \in 1..(Len(obs) - 1) :
                    /\ obs[i].ranking_date < obs[i + 1].ranking_date
                    /\ obs[i + 1].ranking_date - obs[i].ranking_date
                          <= gap_call.max_gap_days * TicksPerDay

RealRowsOf(t) == SelectSeq(t, LAMBDA r : r.rank # Null)

\* C2: in the result every player's rows are in non-decreasing ranking_date
\* order, the rows with a rank are exactly the input rows (same id, date,
\* rank and other columns, same multiplicity), every added row has a null
\* rank, and a player with 0 or 1 observations has no added row.
C2_GapPreservesInput ==
    gap_call.fn # "none" =>
        /\ \A i, j \in 1..Len(gap_result) :
              (i < j /\ gap_result[i].id = gap_result[j].id)
                 => gap_result[i].ranking_date <= gap_result[j].ranking_date
        /\ SameRows(RealRowsOf(gap_result), rankings_df)
        /\ \A k \in 1..Len(gap_result) :
              gap_result[k].rank = Null
                 => Len(SelectSeq(rankings_df, LAMBDA r : r.id = gap_result[k].id)) >= 2

\* a call on an unsorted table that added a marker, with a one-observation player in it
C2_Witness ==
    /\ gap_call.fn # "none"
    /\ ~IsSortedRows(rankings_df)
    /\ Len(gap_result) > Len(rankings_df)
    /\ \E p \in Players : Len(ObservationsOf(p)) = 1

\* the null-rank rows of the result of insert_nan_for_gaps
IsMarker(k) == gap_call.fn = "insert_nan_for_gaps" /\ gap_result[k].rank = Null

\* C3 as stated: a marker carries the id of its neighbours and null in every
\* other nullable column, atp_name included.
C3_MarkerAllNull ==
    \A k \in 1..Len(gap_result) :
        IsMarker(k) =>
            /\ gap_result[k].atp_name = Null
            /\ gap_result[k].points = Null

\* C3 amended: a marker of insert_nan_for_gaps sits between two rows of the
\* same non-null atp_id, carries one of the atp_name values of that player's
\* rows, and null in rank and in every further column.
C3_MarkerIdNameAndNulls ==
    \A k \in 1..Len(gap_result) :
        IsMarker(k) =>
            /\ 1 < k /\ k < Len(gap_result)
            /\ gap_result[k].id # Null
            /\ gap_result[k - 1].id = gap_result[k].id
            /\ gap_result[k + 1].id = gap_result[k].id
            /\ gap_result[k - 1].rank # Null /\ gap_result[k + 1].rank # Null
            /\ gap_result[k].atp_name \in
                  {rankings_df[i].atp_name : i \in {j \in 1..Len(rankings_df) :
                                                      rankings_df[j].id = gap_result[k].id}}
            /\ gap_result[k].points = Null

\* a marker of a player who appears under two name slugs
C3_Witness ==
    \E k \in 1..Len(gap_result) :
        /\ IsMarker(k)
        /\ Cardinality({rankings_df[i].atp_name : i \in {j \in 1..Len(rankings_df) :
                            rankings_df[j].id = gap_result[k].id}}) = 2


(***************************************************************************)
(* Specification of the compaction.                                        *)
(***************************************************************************)
SpecCompactInit == GapInit /\ CompactInit /\ IngestIdle /\ FunIdle

SpecCompactNext ==
    \/ \E d \in UnitDays : \E rows \in RawUnitsOf(d) :
          WriteRawUnit(d, rows) /\ UNCHANGED <<gapVars, ingestVars, funVars>>
    \/ \E g \in 0..MaxGapDays : \E pick \in NamePicks(RankingsBeforeGaps(raw_rankings)) :
          PreprocessAll(g, pick) /\ UNCHANGED <<gapVars, ingestVars, funVars>>

SpecCompact == SpecCompactInit /\ [][SpecCompactNext]_vars

\* C4: in the compacted rankings table written by preprocess_all, no two rows
\* of one player identifier share a ranking_date.
C4_NoDuplicateDates ==
    rankings_parquet # "absent" =>
        \A i, j \in 1..Len(rankings_parquet) :
            (i # j /\ rankings_parquet[i].id # Null
                   /\ rankings_parquet[i].id = rankings_parquet[j].id)
               => rankings_parquet[i].ranking_date # rankings_parquet[j].ranking_date


(***************************************************************************)
(* Claims about the ingestion drivers.                                     *)
(***************************************************************************)
InRun == run_no > 0

\* the unit's file existed when the run started
CachedAtStart(u) == Exists(start_files.files[u])

\* the units requested so far in this run
Fetched == Range(fetched)

\* the units the tournaments driver always fetches again: those of the year
\* it found most recent when the run started
CurrentPeriod(u) == driver = "update_tournaments" /\ YearOf(u) = most_recent_year

IsPrefix(s, t) == Len(s) <= Len(t) /\ SubSeq(t, 1, Len(s)) = s

\* C5: in every driver, a unit whose file existed when the run started is
\* not requested and its file stays as it was, unless force-refresh was asked
\* for or the unit belongs to the current period.
C5_CacheSkip ==
    InRun =>
        \A u \in Keys(driver) :
            (CachedAtStart(u) /\ ~args.force /\ ~CurrentPeriod(u))
               => (u \notin Fetched /\ files[u] = start_files.files[u])

\* a finished tournaments run that skipped one cached unit and fetched another again
C5_Witness ==
    /\ driver = "update_tournaments" /\ pc = "done"
    /\ \E u \in Range(args.list) : CachedAtStart(u) /\ u \notin Fetched
    /\ \E u \in Range(args.list) : CachedAtStart(u) /\ u \in Fetched

\* the units that had a file at the start of the run and were requested all the same
RefetchedCached == {u \in Fetched : CachedAtStart(u)}

\* C6 as stated: a finished run of the rankings or tournaments driver that
\* found a listed unit cached has fetched exactly one cached unit again.
C6_ExactlyOneRefetched ==
    (/\ driver \in {"update_rankings", "update_tournaments"}
     /\ pc = "done"
     /\ \E u \in Range(args.list) : CachedAtStart(u))
        => Cardinality(RefetchedCached) = 1

\* y is the highest year with a raw tournaments file at the start of the run
C6_RecentYear(y) ==
    /\ \E t \in Types : CachedAtStart(<<y, t>>)
    /\ \A y2 \in Years : y2 > y => \A t \in Types : ~CachedAtStart(<<y2, t>>)

\* C6 amended: update_rankings fetches no cached unit again; update_tournaments
\* fetches again exactly the listed cached units of the most recent year that
\* has raw files when the run starts (one per listed type, none when that
\* year is not in the list), and skips every other cached unit.
C6_RefetchedAreMostRecentYear ==
    InRun =>
        /\ driver = "update_rankings" => RefetchedCached = {}
        /\ driver = "update_tournaments" =>
              /\ \A u \in RefetchedCached : C6_RecentYear(YearOf(u))
              /\ pc = "done" =>
                    \A u \in Range(args.list) :
                        (CachedAtStart(u) /\ C6_RecentYear(YearOf(u))) => u \in RefetchedCached

\* a finished tournaments run that fetched two cached units again and skipped a third
C6_Witness ==
    /\ driver = "update_tournaments" /\ pc = "done"
    /\ Cardinality(RefetchedCached) = 2
    /\ \E u \in Range(args.list) : CachedAtStart(u) /\ u \notin Fetched

\* this run repeats the previous one: same arguments, source unchanged since
\* the previous run started, and the previous run ran to its end
RepeatedRun ==
    /\ driver \in {"update_rankings", "update_tournaments"}
    /\ run_no >= 2
    /\ prev_run[1].ended = "done"
    /\ prev_run[1].args = args
    /\ prev_run[1].epoch = epoch

\* C7 as stated: the second of two identical runs issues no request.
C7_SecondRunFetchesNothing == RepeatedRun => fetched = <<>>

\* C7 amended: the second of two identical runs requests no unit whose file
\* exists, except the tournaments driver's units of the most recent year; it
\* requests again every listed unit without a file, and these are the units
\* that returned no data (or, for tournaments, failed) in the first run.
C7_SecondRunFetchesOnlyMissing ==
    RepeatedRun =>
        /\ \A u \in Fetched :
              \/ CurrentPeriod(u) /\ CachedAtStart(u)
              \/ ~CachedAtStart(u) /\ resp[u] \in {"absent", "empty", "error"}
        /\ pc = "done" =>
              \A u \in Range(args.list) : ~CachedAtStart(u) => u \in Fetched

\* a finished second rankings run that skipped a saved unit and requested an empty one again
C7_Witness ==
    /\ RepeatedRun /\ pc = "done" /\ driver = "update_rankings"
    /\ fetched # <<>>
    /\ \E u \in Range(args.list) : CachedAtStart(u) /\ u \notin Fetched

\* the listed units without a file at the start of the run, in list order
MissingAtStart == SelectSeq(args.list, LAMBDA u : ~CachedAtStart(u))

\* C8: in update_rankings and the weekly loop, a file present at the start of
\* a run is never touched; the units requested are the listed units without a
\* file, in list order from the first missing one; and when a run stopped at
\* unit k on a failure, every unit before k that returned rows has its
\* complete file.
C8_Resumable ==
    (InRun /\ driver \in {"update_rankings", "main_weekly"}) =>
        /\ \A u \in Keys(driver) : CachedAtStart(u) => files[u] = start_files.files[u]
        /\ IsPrefix(fetched, MissingAtStart)
        /\ pc = "done" => fetched = MissingAtStart
        /\ pc = "aborted" =>
              /\ fetched = SelectSeq(SubSeq(args.list, 1, idx), LAMBDA u : ~CachedAtStart(u))
              /\ epoch = start_files.epoch =>
                    \A j \in 1..(idx - 1) :
                        (~CachedAtStart(args.list[j]) /\ resp[args.list[j]] = "rows")
                           => files[args.list[j]] = FileOf(epoch, TRUE)

\* a rankings run stopped on a failure after saving a unit; invoked again it
\* skipped that unit and requested the rest
C8_Witness ==
    /\ driver = "update_rankings" /\ run_no >= 2 /\ pc = "done"
    /\ prev_run[1].ended = "aborted" /\ prev_run[1].args = args
    /\ fetched # <<>>
    /\ \E u \in Range(args.list) :
          CachedAtStart(u) /\ start_files.files[u].complete /\ files[u] = start_files.files[u]

\* C9: a file that exists under a unit's name holds the complete rows of the unit.
C9_AtomicWrite ==
    \A u \in Keys(driver) : Exists(files[u]) => files[u].complete

\* C10: a run of a batch driver ends only after the last unit of its list:
\* a failing unit does not keep the units after it from being processed.
C10_FailureNeverAborts ==
    (driver \in {"update_rankings", "update_tournaments", "main_weekly"}
        /\ pc \in {"done", "aborted"})
        => idx >= Len(args.list)

\* a request follows another request of the same run
SecondRequest == fetched # <<>> /\ Len(fetched') = Len(fetched) + 1

\* C11: a request of a run that is not the first of the run is issued only
\* after the run has paused since the request before it.
C11_PauseBetweenRequests == [][SecondRequest => paused]_vars

\* the unit requested last
LastFetched == fetched[Len(fetched)]

\* C12: when the source answered without the expected table or section, the
\* fetcher returned None or an empty result and did not raise.
C12_FailClosed ==
    (/\ driver \in {"update_rankings", "update_tournaments", "main_weekly",
                    "update_players"}
     /\ fetched # <<>>
     /\ resp[LastFetched] = "absent")
        => result \in {"None", "empty"}

\* this run is the next invocation of the batch of the previous run
NextInvocation ==
    /\ run_no >= 2
    /\ IF driver = "update_players"
       THEN prev_run[1].args.max_players = args.max_players
       ELSE prev_run[1].args = args

\* the place of unit u in the list of this run
PlaceOf(u) == CHOOSE j \in 1..Len(args.list) : args.list[j] = u

C28_RefetchKeepsCachedUnit ==
    (InRun /\ driver = "update_tournaments") =>
        \A u \in Fetched :
            (CachedAtStart(u) /\ scrape_atp_events(resp[u]) \in {"raise", "None", "empty"})
                => (Exists(files[u]) /\ files[u] = start_files.files[u])

\* a finished run of update_tournaments that fetched again a unit saved from
\* older data, got an error or no events for it, and still has the file
C28_Witness ==
    /\ driver = "update_tournaments" /\ pc = "done"
    /\ \E u \in Fetched :
          /\ CachedAtStart(u)
          /\ YearOf(u) = most_recent_year
          /\ resp[u] \in {"error", "empty"}
          /\ Exists(files[u])
          /\ files[u].ver < epoch

(***************************************************************************)
(* scrape_atp_events, atp_tournament_scraper.py:57-173: the winners part.  *)
(*                                                                         *)
(* An event (li) has a cta-holder or not; the cta-holder holds dl.winner   *)
(* blocks, each with a dt (or none) and dd entries.  A dd is               *)
(*   "a_href"    <dd><a href="...">Name</a></dd>                           *)
(*   "a_nohref"  <dd><a>Name</a></dd>                                      *)
(*   "text"      <dd>Name</dd>, the name without a link                    *)
(*   "a_empty"   <dd><a href="..."></a></dd>, a link without a name        *)
(***************************************************************************)
DdKinds == {"a_href", "a_nohref", "text", "a_empty"}

DtTexts == {"none", "Singles Winner", "Doubles Winner"}

SeqsUpTo(S, n) == UNION {[1..k -> S] : k \in 0..n}

Dl(dt, dd) == [dt |-> dt, dd |-> dd]

Dls == {Dl(dt, dd) : dt \in DtTexts, dd \in SeqsUpTo(DdKinds, MaxDd)}

\* an event: cta_holder is FALSE without the div, else winners are its dl blocks
Event(cta, winners) == [cta_holder |-> cta, winners |-> winners]

Events ==
    {Event(FALSE, <<>>)} \cup {Event(TRUE, w) : w \in SeqsUpTo(Dls, MaxDl)}

\* dt.get_text(strip=True).lower().replace(' ', '_')
WinnerType(dt) ==
    CASE dt = "Singles Winner" -> "singles_winner"
      [] dt = "Doubles Winner" -> "doubles_winner"
      [] OTHER -> "none"

\* a_tag = dd.find('a')
HasATag(dd) == dd \in {"a_href", "a_nohref", "a_empty"}

\* a_tag.get_text(strip=True)
NameOf(dd) == IF dd = "a_empty" THEN "" ELSE "Name"

\* a_tag.get('href', '')
HrefOf(dd) == IF dd \in {"a_href", "a_empty"} THEN "/en/players/name/id/overview" ELSE ""

\* winner_names / winner_urls of one dl: one entry per dd that holds an a tag
WinnerNames(dl) ==
    LET with == SelectSeq(dl.dd, HasATag)
    IN  [k \in 1..Len(with) |-> NameOf(with[k])]

WinnerUrls(dl) ==
    LET with == SelectSeq(dl.dd, HasATag)
    IN  [k \in 1..Len(with) |-> HrefOf(with[k])]

\* if dt and dd_tags
DlRead(dl) == dl.dt # "none" /\ dl.dd # <<>>

\* singles_winner_found: some dl read has the type singles_winner and a
\* non-empty list winner_names
SinglesWinnerFound(e) ==
    /\ e.cta_holder
    /\ \E k \in 1..Len(e.winners) :
          /\ DlRead(e.winners[k])
          /\ WinnerType(e.winners[k].dt) = "singles_winner"
          /\ WinnerNames(e.winners[k]) # <<>>

\* event['singles_winner_names'] / ['singles_winner_urls']: those of the last
\* dl read of that type (a later one overwrites an earlier one), absent without any
SinglesKeys(e) ==
    LET ks == {k \in 1..Len(e.winners) :
                  DlRead(e.winners[k]) /\ WinnerType(e.winners[k].dt) = "singles_winner"}
    IN  IF ks = {} THEN [names |-> <<>>, urls |-> <<>>]
        ELSE [names |-> WinnerNames(e.winners[SetMax(ks)]),
              urls |-> WinnerUrls(e.winners[SetMax(ks)])]

\* the events appended to extracted_data, each with its place on the page
ExtractedData(pg) ==
    LET kept == SelectSeq([k \in 1..Len(pg) |-> k], LAMBDA k : SinglesWinnerFound(pg[k]))
    IN  [j \in 1..Len(kept) |->
            [li |-> kept[j],
             singles_winner_names |-> SinglesKeys(pg[kept[j]]).names,
             singles_winner_urls |-> SinglesKeys(pg[kept[j]]).urls]]

EventsInit ==
    /\ page = <<>>
    /\ extracted_data = [called |-> FALSE, events |-> <<>>]

\* the page holds one more event
PageAddEvent(e) ==
    /\ ~extracted_data.called
    /\ Len(page) < MaxEvents
    /\ page' = Append(page, e)
    /\ UNCHANGED extracted_data

\* scrape_atp_events(year, tournament_type) on the page
ScrapeAtpEvents ==
    /\ ~extracted_data.called
    /\ extracted_data' = [called |-> TRUE, events |-> ExtractedData(page)]
    /\ UNCHANGED page

EventsFrame ==
    UNCHANGED <<gapVars, compactVars, ingestVars,
                parseVars, combineVars, searchVars, appVars>>

SpecEventsInit ==
    GapInit /\ CompactIdle /\ IngestIdle /\ EventsInit /\ ParseIdle /\ CombineIdle
    /\ SearchIdle /\ AppIdle

SpecEventsNext ==
    \/ \E e \in Events : PageAddEvent(e) /\ EventsFrame
    \/ ScrapeAtpEvents /\ EventsFrame

SpecEvents == SpecEventsInit /\ [][SpecEventsNext]_vars

\* the event lists the name of a singles winner, with or without a link
ListsSinglesWinnerName(e) ==
    /\ e.cta_holder
    /\ \E k \in 1..Len(e.winners) :
          /\ e.winners[k].dt = "Singles Winner"
          /\ \E j \in 1..Len(e.winners[k].dd) :
                e.winners[k].dd[j] \in {"a_href", "a_nohref", "text"}

\* the places of the events put out
OutputPlaces == {extracted_data.events[j].li : j \in 1..Len(extracted_data.events)}

\* C14: scrape_atp_events puts out an event if and only if the event lists at
\* least one singles-winner name, linked or not.
C14_FinishedOnlyFilter ==
    extracted_data.called =>
        \A k \in 1..Len(page) : (k \in OutputPlaces) <=> ListsSinglesWinnerName(page[k])

(***************************************************************************)
(* The three paths that turn the Rank text of a scraped row into an        *)
(* integer: preprocess_all (preprocess_data.py:192-196),                   *)
(* prioritize_players (atp_player_scraper.py:104) and                      *)
(* map_and_combine_raw_files (atp_scraper.py:36).                          *)
(***************************************************************************)
\* the decimal numerals without leading zero of at most n digits
Numerals(n) ==
    {s \in SeqsUpTo(Range(DigitChars), n) : s # <<>> /\ s[1] # "0"}

\* the Rank cells of the rankings page: a rank, tied ("12T") or not ("12")
ScrapedRankTexts == Numerals(MaxDigits) \cup {s \o <<"T">> : s \in Numerals(MaxDigits)}

\* pandas str.replace('T', ''): every occurrence
PandasReplaceT(s) == SelectSeq(s, LAMBDA c : c # "T")

\* astype(int): a text that is no number raises
AsTypeInt(s) ==
    IF s # <<>> /\ (\A k \in 1..Len(s) : IsDigit(s[k]))
    THEN DecimalValue(s, 0)
    ELSE "raise"

\* pd.to_numeric(errors='coerce'): NaN for a text that is no number
ToNumericCoerce(s) ==
    IF s # <<>> /\ (\A k \in 1..Len(s) : IsDigit(s[k]))
    THEN [nan |-> FALSE, value |-> DecimalValue(s, 0)]
    ELSE [nan |-> TRUE, value |-> 0]

\* fillna(v).astype(int)
FillNa(x, v) == IF x.nan THEN v ELSE x.value

\* preprocess_all: cast(pl.Utf8).str.replace("T", "").cast(pl.Int16)
PreprocessAllRank(s) == CastInt16(StrReplaceT(s))

\* prioritize_players: astype(str).str.replace('T', '').astype(int)
PrioritizePlayersRank(s) == AsTypeInt(PandasReplaceT(s))

\* map_and_combine_raw_files: pd.to_numeric(Rank, errors='coerce').fillna(0).astype(int)
MapAndCombineRank(s) == FillNa(ToNumericCoerce(s), 0)

ParseInit ==
    /\ rank_text \in ScrapedRankTexts
    /\ rank_parsed = [path |-> "none", rank |-> 0]

ParsePreprocessAll ==
    /\ rank_parsed.path = "none"
    /\ rank_parsed' = [path |-> "preprocess_all", rank |-> PreprocessAllRank(rank_text)]
    /\ UNCHANGED rank_text

ParsePrioritizePlayers ==
    /\ rank_parsed.path = "none"
    /\ rank_parsed' = [path |-> "prioritize_players", rank |-> PrioritizePlayersRank(rank_text)]
    /\ UNCHANGED rank_text

ParseMapAndCombine ==
    /\ rank_parsed.path = "none"
    /\ rank_parsed' = [path |-> "map_and_combine_raw_files", rank |-> MapAndCombineRank(rank_text)]
    /\ UNCHANGED rank_text

ParseFrame ==
    UNCHANGED <<gapVars, compactVars, ingestVars,
                eventsVars, combineVars, searchVars, appVars>>

SpecParseInit ==
    GapInit /\ CompactIdle /\ IngestIdle /\ EventsIdle /\ ParseInit /\ CombineIdle
    /\ SearchIdle /\ AppIdle

SpecParseNext ==
    \/ ParsePreprocessAll /\ ParseFrame
    \/ ParsePrioritizePlayers /\ ParseFrame
    \/ ParseMapAndCombine /\ ParseFrame

SpecParse == SpecParseInit /\ [][SpecParseNext]_vars

\* the rank text without its trailing tie marker
Untied(s) == IF s[Len(s)] = "T" THEN SubSeq(s, 1, Len(s) - 1) ELSE s

\* C15: on each of the three paths a rank text with a trailing "T" gives the
\* integer written before the marker, the value the untied text gives.
C15_TieRankParsing ==
    rank_parsed.path # "none" => rank_parsed.rank = DecimalValue(Untied(rank_text), 0)

(***************************************************************************)
(* The weekly pipeline of main.py: scrape_atp_rankings_raw keeps the       *)
(* display name of a row of the rankings page, and                         *)
(* map_and_combine_raw_files (atp_scraper.py:15-47) resolves the names to  *)
(* the player_id of players_df.  A text is a sequence of characters.       *)
(***************************************************************************)
\* the characters of the names, in the order of their code points
CharOrder == <<" ", "A", "a", "b", "c">>

CharCode(c) == CHOOSE k \in 1..Len(CharOrder) : CharOrder[k] = c

\* str.lower()
LowerChar(c) == IF c = "A" THEN "a" ELSE c

Lower(s) == [k \in 1..Len(s) |-> LowerChar(s[k])]

\* str.strip(): the whitespace at both ends goes, the whitespace inside stays
RECURSIVE LStrip(_)
LStrip(s) == IF s # <<>> /\ Head(s) = " " THEN LStrip(Tail(s)) ELSE s

RECURSIVE RStrip(_)
RStrip(s) ==
    IF s # <<>> /\ s[Len(s)] = " " THEN RStrip(SubSeq(s, 1, Len(s) - 1)) ELSE s

Strip(s) == RStrip(LStrip(s))

\* the order of Python strings
RECURSIVE TextLess(_, _)
TextLess(s, t) ==
    IF t = <<>> THEN FALSE
    ELSE IF s = <<>> THEN TRUE
    ELSE IF Head(s) # Head(t) THEN CharCode(Head(s)) < CharCode(Head(t))
    ELSE TextLess(Tail(s), Tail(t))

\* ---- difflib.SequenceMatcher(a, b), no junk ----
\* the matching blocks of a[alo..ahi] and b[blo..bhi], as <<i, j, size>>
MatchBlocks(a, b, alo, ahi, blo, bhi) ==
    {<<i, j, k>> \in (alo..ahi) \X (blo..bhi) \X (1..Len(a)) :
        /\ i + k - 1 <= ahi
        /\ j + k - 1 <= bhi
        /\ \A d \in 0..(k - 1) : a[i + d] = b[j + d]}

\* find_longest_match: the longest block; of these the earliest in a, then in b
FindLongestMatch(a, b, alo, ahi, blo, bhi) ==
    LET blocks == MatchBlocks(a, b, alo, ahi, blo, bhi)
    IN  CHOOSE m \in blocks :
            \A o \in blocks :
                \/ o[3] < m[3]
                \/ o[3] = m[3] /\ m[1] < o[1]
                \/ o[3] = m[3] /\ m[1] = o[1] /\ m[2] <= o[2]

\* get_matching_blocks: the longest block, then the same to its left and right
RECURSIVE Matches(_, _, _, _, _, _)
Matches(a, b, alo, ahi, blo, bhi) ==
    IF MatchBlocks(a, b, alo, ahi, blo, bhi) = {} THEN 0
    ELSE LET m == FindLongestMatch(a, b, alo, ahi, blo, bhi)
         IN  m[3] + Matches(a, b, alo, m[1] - 1, blo, m[2] - 1)
                  + Matches(a, b, m[1] + m[3], ahi, m[2] + m[3], bhi)

\* ratio() = 2.0 * matches / (len(a) + len(b)), as the fraction <<num, den>>
Ratio(a, b) == <<2 * Matches(a, b, 1, Len(a), 1, Len(b)), Len(a) + Len(b)>>

CutoffPercent == 85

\* ratio() >= cutoff
AtLeastCutoff(r) == r[2] = 0 \/ 100 * r[1] >= CutoffPercent * r[2]

\* (score, x) < (score, y), the order of heapq.nlargest on the result list
ScoredLess(x, y, word) ==
    LET rx == Ratio(x, word)
        ry == Ratio(y, word)
    IN  \/ rx[1] * ry[2] < ry[1] * rx[2]
        \/ rx[1] * ry[2] = ry[1] * rx[2] /\ TextLess(x, y)

\* difflib.get_close_matches(word, possibilities, n=1, cutoff=0.85)
get_close_matches(word, possibilities) ==
    LET close == {x \in possibilities : AtLeastCutoff(Ratio(x, word))}
    IN  IF close = {} THEN <<>>
        ELSE <<CHOOSE x \in close : \A y \in close : y = x \/ ScoredLess(y, x, word)>>

\* ---- build_player_name_id_map ----
\* (first_name + ' ' + last_name).str.strip().str.lower()
FullName(p) == Lower(Strip(p.first_name \o <<" ">> \o p.last_name))

\* pd.Series(player_id, index=full_names).to_dict(): of two players with one
\* full name the later row stays
build_player_name_id_map(df) ==
    [n \in {FullName(df[k]) : k \in 1..Len(df)} |->
        df[SetMax({k \in 1..Len(df) : FullName(df[k]) = n})].player_id]

\* ---- map_and_combine_raw_files ----
\* name_id_map[name]: key = name.strip().lower(); the id of the key if it is
\* known, else of the close match, else '' (Null)
ResolveName(name, name_to_id) ==
    LET key == Lower(Strip(name))
        best == get_close_matches(key, DOMAIN name_to_id)
    IN  IF key \in DOMAIN name_to_id THEN name_to_id[key]
        ELSE IF best # <<>> THEN name_to_id[best[1]]
        ELSE Null

\* all_raw['Player'].drop_duplicates(): the names in the order of first appearance
RECURSIVE UniqueNames(_, _)
UniqueNames(rows, seen) ==
    IF rows = <<>> THEN <<>>
    ELSE IF Head(rows).Player \in seen THEN UniqueNames(Tail(rows), seen)
    ELSE <<Head(rows).Player>> \o UniqueNames(Tail(rows), seen \cup {Head(rows).Player})

\* all_raw[out_cols]: ranking_date, rank, player_id, points
OutRow(r, name_to_id) ==
    [ranking_date |-> r.ranking_date,
     rank |-> MapAndCombineRank(r.Rank),
     player_id |-> ResolveName(r.Player, name_to_id),
     points |-> r.Points]

\* unmapped = [name for name, pid in name_id_map.items() if pid == '']
Unmapped(rows, name_to_id) ==
    SelectSeq(UniqueNames(rows, {}), LAMBDA n : ResolveName(n, name_to_id) = Null)

\* ---- the inputs ----
FirstNames == {<<"a">>, <<"A">>}
LastNames == {<<"b">>, <<"b", "c">>}
Spaces == {<<" ">>, <<" ", " ", " ">>}
Margins == {<<>>, <<" ">>}

\* li.name of the player cell, as the page shows it
DisplayNames ==
    {lead \o <<"A">> \o sp \o l : lead \in Margins, sp \in Spaces, l \in LastNames}

\* a row of the rankings page: the cells, and the id of the profile link in
\* the player cell (Null without a link)
PageRow(name, rk, link, d) ==
    [Player |-> name, Rank |-> rk, link_id |-> link, ranking_date |-> d, Points |-> 1]

PageRows ==
    {PageRow(n, rk, link, 1) : n \in DisplayNames, rk \in {<<"1">>, <<"1", "T">>},
                               link \in {Null, 1}}

\* the row scrape_atp_rankings_raw writes: rank, player_name, rank_change and
\* the text of the other cells; the profile link is not read
RawWeeklyRow(pr) ==
    [Player |-> pr.Player, Rank |-> pr.Rank, ranking_date |-> pr.ranking_date,
     Points |-> pr.Points]

\* players_df: at least one player; player k has the player_id k
PlayersTables ==
    UNION {[1..n -> [player_id : 1..MaxKnown, first_name : FirstNames, last_name : LastNames]]
              : n \in 1..MaxKnown}

CombineInit ==
    /\ players_df \in {t \in PlayersTables : \A k \in 1..Len(t) : t[k].player_id = k}
    /\ page_rows = <<>>
    /\ all_raw = <<>>
    /\ out_csv = [written |-> FALSE, rows |-> <<>>]
    /\ atp_players_new = [written |-> FALSE, names |-> <<>>]

\* the weekly loop scraped a page row into a raw file
ScrapeWeeklyRow(pr) ==
    /\ ~out_csv.written
    /\ Len(all_raw) < MaxRawRows
    /\ page_rows' = Append(page_rows, pr)
    /\ all_raw' = Append(all_raw, RawWeeklyRow(pr))
    /\ UNCHANGED <<players_df, out_csv, atp_players_new>>

\* map_and_combine_raw_files(players_df) with raw files present
MapAndCombineRawFiles ==
    /\ ~out_csv.written
    /\ all_raw # <<>>
    /\ LET name_to_id == build_player_name_id_map(players_df)
       IN  /\ out_csv' = [written |-> TRUE,
                          rows |-> [k \in 1..Len(all_raw) |-> OutRow(all_raw[k], name_to_id)]]
           /\ atp_players_new' =
                 IF Unmapped(all_raw, name_to_id) # <<>>
                 THEN [written |-> TRUE, names |-> Unmapped(all_raw, name_to_id)]
                 ELSE atp_players_new
    /\ UNCHANGED <<players_df, page_rows, all_raw>>

CombineFrame ==
    UNCHANGED <<gapVars, compactVars, ingestVars,
                eventsVars, parseVars, searchVars, appVars>>

SpecCombineInit ==
    GapInit /\ CompactIdle /\ IngestIdle /\ EventsIdle /\ ParseIdle /\ CombineInit
    /\ SearchIdle /\ AppIdle

SpecCombineNext ==
    \/ \E pr \in PageRows :
          ScrapeWeeklyRow(pr) /\ CombineFrame
    \/ MapAndCombineRawFiles /\ CombineFrame

SpecCombine == SpecCombineInit /\ [][SpecCombineNext]_vars

\* runs of whitespace inside a text become one space
RECURSIVE CollapseWhitespace(_)
CollapseWhitespace(s) ==
    IF Len(s) < 2 THEN s
    ELSE IF s[1] = " " /\ s[2] = " " THEN CollapseWhitespace(Tail(s))
    ELSE <<Head(s)>> \o CollapseWhitespace(Tail(s))

\* the normalized form of a name: case-folded, whitespace collapsed
Normalized(s) == Lower(CollapseWhitespace(Strip(s)))

\* the known full names, normalized, and the player each belongs to
KnownNormalized ==
    LET name_to_id == build_player_name_id_map(players_df)
    IN  [n \in {Normalized(x) : x \in DOMAIN name_to_id} |->
            name_to_id[CHOOSE x \in DOMAIN name_to_id : Normalized(x) = n]]

\* the id the stated order resolves a display name to
ResolvedStated(name) ==
    LET key == Normalized(name)
        best == get_close_matches(key, DOMAIN KnownNormalized)
    IN  IF key \in DOMAIN KnownNormalized THEN KnownNormalized[key]
        ELSE IF best # <<>> THEN KnownNormalized[best[1]]
        ELSE Null

\* C16: every row of the combined output has the id its display name resolves
\* to in the stated order: the player whose normalized full name equals the
\* normalized display name (case-folded, whitespace collapsed); failing that
\* the single best known name with similarity at least 0.85; failing that no id.
C16_NameResolutionOrder ==
    out_csv.written =>
        \A k \in 1..Len(all_raw) :
            out_csv.rows[k].player_id = ResolvedStated(all_raw[k].Player)

\* C17: a row that has a URL-derived id on the rankings page is stored under
\* that id in the combined output, whatever its display name.
C17_UrlIdWins ==
    out_csv.written =>
        \A k \in 1..Len(page_rows) :
            page_rows[k].link_id # Null => out_csv.rows[k].player_id = page_rows[k].link_id

\* C18: the name of every row whose player could not be matched is in the
\* side list of unmapped players, and the row is in the combined output with
\* its display name.
C18_UnresolvedKeptWithName ==
    out_csv.written =>
        \A k \in 1..Len(all_raw) :
            out_csv.rows[k].player_id = Null =>
                /\ atp_players_new.written
                /\ all_raw[k].Player \in Range(atp_players_new.names)
                /\ "Player" \in DOMAIN out_csv.rows[k]
                /\ out_csv.rows[k].Player = all_raw[k].Player

(***************************************************************************)
(* The player search of application.py: the index built at startup         *)
(* (lines 110-180) and search_players (lines 184-230).  A term of the      *)
(* index and a query are texts; the index maps a term to the list of the   *)
(* atp_id entered under it.  The players of the model have no country      *)
(* code.                                                                   *)
(***************************************************************************)
\* str.split(): the words between runs of whitespace
RECURSIVE SplitFrom(_, _)
SplitFrom(s, word) ==
    IF s = <<>> THEN (IF word = <<>> THEN <<>> ELSE <<word>>)
    ELSE IF Head(s) = " "
         THEN (IF word = <<>> THEN <<>> ELSE <<word>>) \o SplitFrom(Tail(s), <<>>)
         ELSE SplitFrom(Tail(s), Append(word, Head(s)))

Split(s) == SplitFrom(s, <<>>)

\* term.startswith(query)
StartsWith(term, q) == Len(q) <= Len(term) /\ SubSeq(term, 1, Len(q)) = q

\* query in term
IsIn(q, term) ==
    \E i \in 0..(Len(term) - Len(q)) : SubSeq(term, i + 1, i + Len(q)) = q

\* atp_name.replace('-', ' ')
ReplaceDash(s) == [k \in 1..Len(s) |-> IF s[k] = "-" THEN " " ELSE s[k]]

\* ---- the index ----
\* search_terms of one name: the name, then each of its words longer than one character
SearchTerms(name) ==
    <<name>> \o SelectSeq(Split(name), LAMBDA part : Len(part) > 1)

\* the (term, atp_id) entries of the index in the order they are made: the
\* players of players_df with a full_name first, then every player of
\* rankings_df with an atp_name (the test that should skip the players
\* already entered looks up the term 'atp_id' and never holds)
PlayerEntries(p) ==
    LET from_players == IF p.full_name = <<>> THEN <<>> ELSE SearchTerms(Lower(p.full_name))
        from_rankings == IF p.atp_name = <<>> THEN <<>>
                         ELSE SearchTerms(Lower(ReplaceDash(p.atp_name)))
    IN  [k \in 1..Len(from_players) |->
            [term |-> from_players[k], atp_id |-> p.atp_id, src |-> 1]]
        \o [k \in 1..Len(from_rankings) |->
            [term |-> from_rankings[k], atp_id |-> p.atp_id, src |-> 2]]

IndexEntries(players) ==
    LET all == Flatten([k \in 1..Len(players) |-> PlayerEntries(players[k])])
    IN  SelectSeq(all, LAMBDA e : e.src = 1) \o SelectSeq(all, LAMBDA e : e.src = 2)

\* player_search_index[term].append(atp_id)
BuildSearchIndex(players) ==
    LET es == IndexEntries(players)
    IN  [t \in {es[k].term : k \in 1..Len(es)} |->
            LET at == SelectSeq(es, LAMBDA e : e.term = t)
            IN  [k \in 1..Len(at) |-> at[k].atp_id]]

\* ---- search_players ----
AllIds(index) == UNION {Range(index[t]) : t \in DOMAIN index}

\* if query == term
ExactStage(index, q) == IF q \in DOMAIN index THEN Range(index[q]) ELSE {}

\* if term.startswith(query)
StartsWithStage(index, q) ==
    UNION {Range(index[t]) : t \in {x \in DOMAIN index : StartsWith(x, q)}}

\* the length of the longest list of the index
LongestList(index) == SetMax({Len(index[t]) : t \in DOMAIN index} \cup {0})

\* potential_matches[atp_id]: one more for every part of at least 3
\* characters, every term that has the part among its words, and every entry
\* of atp_id under that term
PotentialMatches(index, query_parts, atp_id) ==
    Cardinality(
        {h \in (1..Len(query_parts)) \X (DOMAIN index) \X (1..LongestList(index)) :
            /\ Len(query_parts[h[1]]) >= 3
            /\ query_parts[h[1]] \in Range(Split(h[2]))
            /\ h[3] <= Len(index[h[2]])
            /\ index[h[2]][h[3]] = atp_id})

MinOf(a, b) == IF a <= b THEN a ELSE b

\* if len(query_parts) > 1: the players with match_count >= min(2, len(query_parts))
PartsStage(index, q) ==
    IF Len(Split(q)) > 1
    THEN {p \in AllIds(index) :
             PotentialMatches(index, Split(q), p) >= MinOf(2, Len(Split(q)))}
    ELSE {}

\* if query in term
ContainsStage(index, q) ==
    UNION {Range(index[t]) : t \in {x \in DOMAIN index : IsIn(q, x)}}

\* query[:int(len(query)*0.7)]
QueryPrefix(q) == SubSeq(q, 1, (7 * Len(q)) \div 10)

\* if len(query) >= 3: any(query[:int(len(query)*0.7)] in word for word in term.split())
PartialStage(index, q) ==
    IF Len(q) >= 3
    THEN UNION {Range(index[t]) :
                   t \in {x \in DOMAIN index :
                             \E k \in 1..Len(Split(x)) : IsIn(QueryPrefix(q), Split(x)[k])}}
    ELSE {}

StagesOf(index, q) ==
    [starts |-> ExactStage(index, q) \cup StartsWithStage(index, q),
     parts |-> PartsStage(index, q),
     contains |-> ContainsStage(index, q),
     partial |-> PartialStage(index, q)]

SearchPlayersFirstStage(index, q0) ==
    LET st == StagesOf(index, Strip(Lower(q0)))
    IN  IF st.starts # {} THEN st.starts
        ELSE IF st.parts # {} THEN st.parts
        ELSE IF st.contains # {} THEN st.contains
        ELSE st.partial

\* search_players(query): query.lower().strip(), then every block adds to matching_ids
search_players(index, q0) ==
    LET st == StagesOf(index, Strip(Lower(q0)))
    IN  st.starts \cup st.parts \cup st.contains \cup st.partial

\* ---- the inputs ----
SearchWords == {<<"A", "b", "c">>, <<"a", "b", "d">>, <<"x", "a", "b">>}

\* full_name of players_df
SearchNames == {f \o <<" ">> \o l : f \in SearchWords, l \in SearchWords}

\* atp_name of rankings_df: the slug of the name
SlugOf(name) == [k \in 1..Len(name) |-> IF name[k] = " " THEN "-" ELSE LowerChar(name[k])]

\* a player known to players_df, to rankings_df, or to both
SearchPlayer(id, name, in_players, in_rankings) ==
    [atp_id |-> id,
     full_name |-> IF in_players THEN name ELSE <<>>,
     atp_name |-> IF in_rankings THEN SlugOf(name) ELSE <<>>]

SearchPlayerTables ==
    UNION {{t \in [1..n -> {SearchPlayer(id, nm, a, b) :
                               id \in 1..MaxSearchPlayers, nm \in SearchNames,
                               a \in BOOLEAN, b \in BOOLEAN}] :
               \A k \in 1..n : t[k].atp_id = k /\ (t[k].full_name # <<>> \/ t[k].atp_name # <<>>)}
           : n \in 1..MaxSearchPlayers}

QueryWords == {<<"a", "b">>, <<"a", "b", "c">>, <<"A", "b", "d">>, <<"x", "a", "b">>,
               <<"a", "b", "z">>}

Queries ==
    {m \o w : m \in Margins, w \in QueryWords}
    \cup {w1 \o <<" ">> \o w2 : w1 \in QueryWords, w2 \in QueryWords}

SearchInit ==
    /\ player_search_index \in {BuildSearchIndex(t) : t \in SearchPlayerTables}
    /\ query = <<>>
    /\ matching_ids = {}
    /\ stage_added = [starts |-> {}, parts |-> {}, contains |-> {}, partial |-> {}]

\* search_players(q0) is called (query holds no text before the call)
SearchPlayers(q0) ==
    /\ query = <<>>
    /\ query' = q0
    /\ matching_ids' = search_players(player_search_index, q0)
    /\ stage_added' = StagesOf(player_search_index, Strip(Lower(q0)))
    /\ UNCHANGED player_search_index

SearchFrame ==
    UNCHANGED <<gapVars, compactVars, ingestVars,
                eventsVars, parseVars, combineVars, appVars>>

SpecSearchInit ==
    GapInit /\ CompactIdle /\ IngestIdle /\ EventsIdle /\ ParseIdle /\ CombineIdle /\ SearchInit
    /\ AppIdle

SpecSearchNext ==
    \E q0 \in Queries : SearchPlayers(q0) /\ SearchFrame

SpecSearch == SpecSearchInit /\ [][SpecSearchNext]_vars

\* search_players has been called
Searched == query # <<>>

\* the query as search_players compares it
NormalQuery == Strip(Lower(query))

\* the index tokens of player p
TokensOf(p) == {t \in DOMAIN player_search_index : p \in Range(player_search_index[t])}

\* the players of the tokens that start with the query
PlayersStartingWith ==
    {p \in AllIds(player_search_index) : \E t \in TokensOf(p) : StartsWith(t, NormalQuery)}

\* what the first stage that found a player found
FirstStageWithMatch ==
    IF stage_added.starts # {} THEN stage_added.starts
    ELSE IF stage_added.parts # {} THEN stage_added.parts
    ELSE IF stage_added.contains # {} THEN stage_added.contains
    ELSE stage_added.partial

\* C19 as stated: the result is what the first stage with a match found; when
\* an index token starts with the query it is exactly the players of the
\* tokens that start with the query.
C19_StopsAtFirstStage ==
    Searched =>
        /\ matching_ids = FirstStageWithMatch
        /\ PlayersStartingWith # {} => matching_ids = PlayersStartingWith

\* C19 amended: the result is the union of all stages: a player is in it if
\* and only if one of its tokens contains the query (which covers the tokens
\* that are, or start with, the query), or the query has at least 3
\* characters and its first 70% occur in a word of one of its tokens, or the
\* multi-word stage found it.
C19_UnionOfStages ==
    Searched =>
        \A p \in AllIds(player_search_index) :
            p \in matching_ids <=>
                \/ \E t \in TokensOf(p) : IsIn(NormalQuery, t)
                \/ /\ Len(NormalQuery) >= 3
                   /\ \E t \in TokensOf(p) : \E k \in 1..Len(Split(t)) :
                         IsIn(SubSeq(NormalQuery, 1, (7 * Len(NormalQuery)) \div 10), Split(t)[k])
                \/ p \in stage_added.parts

\* a search where a token starts with the query and the result also holds a
\* player none of whose tokens starts with it
C19_Witness ==
    /\ Searched
    /\ PlayersStartingWith # {}
    /\ \E p \in matching_ids : p \notin PlayersStartingWith

\* the distinct words of the query that are a word of some token of player p
WordsMatched(p) ==
    {w \in Range(Split(NormalQuery)) :
        \E t \in TokensOf(p) : w \in Range(Split(t))}

\* C20: for a query of two or more words the partial-word stage adds a player
\* only if at least min(2, word_count) distinct words of the query are each a
\* whole word of some index token of the player.
C20_MultiWordDistinctWords ==
    (Searched /\ Len(Split(NormalQuery)) >= 2) =>
        \A p \in stage_added.parts :
            Cardinality(WordsMatched(p)) >= MinOf(2, Len(Split(NormalQuery)))

(***************************************************************************)
(* search_players behind functools.lru_cache (application.py:184): a call  *)
(* with an argument that is in the cache returns the cached set without    *)
(* running the function; a call that is not runs it and caches the set,    *)
(* dropping the least recently used call when the cache is full.  The key  *)
(* is the argument as passed, before lower() and strip().                  *)
(*                                                                         *)
(* application.py changes player_search_index only by the insertion of     *)
(* lines 142-146 and 176-180, in the startup loops, and holds no call that *)
(* clears the cache.  A point update of the index is that insertion, for   *)
(* the terms of one player, on the module's dict after startup.            *)
(***************************************************************************)
MaxIndexUpdates == 1
MaxCachedCalls == 2
LruMaxsize == 1024

\* player_search_index[term].append(atp_id), with the list made when the term is new
AddEntry(index, e) ==
    [t \in (DOMAIN index) \cup {e.term} |->
        IF t \in DOMAIN index
        THEN (IF t = e.term THEN Append(index[t], e.atp_id) ELSE index[t])
        ELSE <<e.atp_id>>]

RECURSIVE AddEntries(_, _)
AddEntries(index, es) ==
    IF es = <<>> THEN index ELSE AddEntries(AddEntry(index, Head(es)), Tail(es))

\* the position of the call in the cache, 0 when it is not cached
CachePosition(cache, q0) ==
    IF \E k \in 1..Len(cache) : cache[k].key = q0
    THEN CHOOSE k \in 1..Len(cache) : cache[k].key = q0
    ELSE 0

\* what the wrapper returns for search_players(q0)
LruCall(cache, index, q0) ==
    IF CachePosition(cache, q0) # 0
    THEN cache[CachePosition(cache, q0)].value
    ELSE search_players(index, q0)

\* the cache after the call
LruAfter(cache, index, q0) ==
    LET k == CachePosition(cache, q0)
    IN  IF k # 0
        THEN SubSeq(cache, 1, k - 1) \o SubSeq(cache, k + 1, Len(cache)) \o <<cache[k]>>
        ELSE (IF Len(cache) >= LruMaxsize THEN Tail(cache) ELSE cache)
             \o <<[key |-> q0, value |-> search_players(index, q0)]>>

\* ---- the inputs ----
CacheQueries == {<<"a", "b", "c">>, <<"A", "b", "d">>, <<" ", "a", "b">>}

CachePlayers ==
    {SearchPlayer(id, nm, a, b) :
        id \in 1..MaxSearchPlayers, nm \in SearchNames, a \in BOOLEAN, b \in BOOLEAN}

CacheInit ==
    /\ player_search_index \in
          {BuildSearchIndex(t) : t \in {x \in SearchPlayerTables : Len(x) = 1}}
    /\ query = <<>>
    /\ matching_ids = {}
    /\ stage_added = [starts |-> {}, parts |-> {}, contains |-> {}, partial |-> {}]
    /\ search_cache = <<>>
    /\ last_search = [called |-> FALSE, query |-> <<>>, returned |-> {}, computed |-> {}]
    /\ index_updates = 0

\* the terms of one more player are entered in the index
IndexAddPlayer(p) ==
    /\ index_updates < MaxIndexUpdates
    /\ p.full_name # <<>> \/ p.atp_name # <<>>
    /\ player_search_index' = AddEntries(player_search_index, IndexEntries(<<p>>))
    /\ index_updates' = index_updates + 1
    /\ UNCHANGED <<query, matching_ids, stage_added, search_cache, last_search>>

\* the decorated search_players(q0) is called
CachedSearchPlayers(q0) ==
    /\ CachePosition(search_cache, q0) # 0 \/ Len(search_cache) < MaxCachedCalls
    /\ search_cache' = LruAfter(search_cache, player_search_index, q0)
    /\ last_search' = [called |-> TRUE, query |-> q0,
                       returned |-> LruCall(search_cache, player_search_index, q0),
                       computed |-> search_players(player_search_index, q0)]
    /\ query' = q0
    /\ matching_ids' = LruCall(search_cache, player_search_index, q0)
    /\ UNCHANGED <<player_search_index, stage_added, index_updates>>

CacheFrame ==
    UNCHANGED <<gapVars, compactVars, ingestVars,
                eventsVars, parseVars, combineVars,
                tourVars,
                loadVars,
                rankVars,
                memVars,
                playersVars>>

SpecCacheInit ==
    GapInit /\ CompactIdle /\ IngestIdle /\ EventsIdle /\ ParseIdle /\ CombineIdle
    /\ CacheInit /\ TournamentsIdle /\ LoadIdle /\ RankIdle /\ MemIdle /\ PlayersIdle

SpecCacheNext ==
    \/ \E p \in CachePlayers : IndexAddPlayer(p) /\ CacheFrame
    \/ \E q0 \in CacheQueries : CachedSearchPlayers(q0) /\ CacheFrame

SpecCache == SpecCacheInit /\ [][SpecCacheNext]_vars

MaxVenue == 2
MaxStartDay == 2
MaxTournamentFiles == 2
MaxTournamentRows == 2

\* event dict of scrape_atp_events
TournamentRow(y, tp, n, d, v) ==
    [year |-> y, tournament_type |-> tp, tournament_name |-> n, start_date |-> d, venue |-> v]

\* what a results-archive page of (y, tp) gives
TournamentPages(y, tp) ==
    UNION {[1..n -> {TournamentRow(y, tp, nm, d, v) :
                        nm \in 1..MaxName, d \in 1..MaxStartDay, v \in 1..MaxVenue}]
           : n \in 1..MaxTournamentRows}

\* tournaments.select(keep_cols): year is not among keep_cols
KeepCols(r) ==
    [tournament_name |-> r.tournament_name, start_date |-> r.start_date,
     tournament_type |-> r.tournament_type, venue |-> r.venue]

\* pd_tournaments_for_dedup.drop_duplicates().index: the first of the rows equal in every column
RECURSIVE DropDuplicates(_)
DropDuplicates(rows) ==
    IF rows = <<>> THEN <<>>
    ELSE LET init == DropDuplicates(SubSeq(rows, 1, Len(rows) - 1))
             last == rows[Len(rows)]
         IN  IF last \in Range(init) THEN init ELSE Append(init, last)

\* the orders glob.glob may list the files in
FileOrders(raw) ==
    {o \in [1..Cardinality(DOMAIN raw) -> DOMAIN raw] :
        \A i, j \in DOMAIN o : i # j => o[i] # o[j]}

\* pl.concat(tournaments_list, how="diagonal"), select, drop_duplicates, to_datetime
CompactTournaments(raw, order) ==
    LET all == Flatten([k \in 1..Len(order) |-> raw[order[k]]])
        kept == [k \in 1..Len(all) |-> KeepCols(all[k])]
        uniq == DropDuplicates(kept)
    IN  [k \in 1..Len(uniq) |-> [uniq[k] EXCEPT !.start_date = ToDatetime(@)]]

TournamentsInit ==
    /\ raw_tournaments = <<>>
    /\ tournaments_parquet = [written |-> FALSE, rows |-> <<>>]

\* update_tournaments saves the events of one unit: df.to_csv(output_path)
WriteTournamentUnit(y, tp, rows) ==
    /\ ~tournaments_parquet.written
    /\ \/ <<y, tp>> \in DOMAIN raw_tournaments
       \/ Cardinality(DOMAIN raw_tournaments) < MaxTournamentFiles
    /\ raw_tournaments' =
          [u \in (DOMAIN raw_tournaments) \cup {<<y, tp>>} |->
              IF u = <<y, tp>> THEN rows ELSE raw_tournaments[u]]
    /\ UNCHANGED tournaments_parquet

\* preprocess_all, tournaments section: if tournament_files: ... write_parquet
PreprocessAllTournaments(order) ==
    /\ ~tournaments_parquet.written
    /\ DOMAIN raw_tournaments # {}
    /\ tournaments_parquet' =
          [written |-> TRUE, rows |-> CompactTournaments(raw_tournaments, order)]
    /\ UNCHANGED raw_tournaments

TournamentsFrame ==
    UNCHANGED <<gapVars, compactVars, ingestVars,
                eventsVars, parseVars, combineVars, searchVars, cacheVars,
                loadVars,
                rankVars,
                memVars,
                playersVars>>

SpecTournamentsInit ==
    GapInit /\ CompactIdle /\ IngestIdle /\ EventsIdle /\ ParseIdle /\ CombineIdle
    /\ SearchIdle /\ CacheIdle /\ TournamentsInit /\ LoadIdle /\ RankIdle /\ MemIdle /\ PlayersIdle

SpecTournamentsNext ==
    \/ \E y \in Years, tp \in Types : \E rows \in TournamentPages(y, tp) :
          WriteTournamentUnit(y, tp, rows) /\ TournamentsFrame
    \/ \E order \in FileOrders(raw_tournaments) :
          PreprocessAllTournaments(order) /\ TournamentsFrame

SpecTournaments == SpecTournamentsInit /\ [][SpecTournamentsNext]_vars

\* all rows of the raw units
RawTournamentRows == UNION {Range(raw_tournaments[u]) : u \in DOMAIN raw_tournaments}

\* the rows of the compacted table that come from raw rows of event (y, n, d)
CompactedRowsOf(y, n, d) ==
    {i \in 1..Len(tournaments_parquet.rows) :
        \E r \in RawTournamentRows :
            /\ r.year = y /\ r.tournament_name = n /\ r.start_date = d
            /\ [KeepCols(r) EXCEPT !.start_date = ToDatetime(@)] = tournaments_parquet.rows[i]}

\* C22: the compacted tournaments table holds at most one row per
\* (year, tournament_name, start_date), also when two raw rows of the same
\* event differ in an auxiliary column.
C22_TournamentKeyDedup ==
    tournaments_parquet.written =>
        \A r \in RawTournamentRows :
            Cardinality(CompactedRowsOf(r.year, r.tournament_name, r.start_date)) <= 1

(***************************************************************************)
(* The loaders of data_loader.py: load_players (lines 43-113) and          *)
(* load_rankings (lines 116-243) over data/cache, with download_file       *)
(* (lines 18-40).                                                          *)
(*                                                                         *)
(* The repository serves atp_players.csv and one atp_rankings_<decade>.csv *)
(* per decade, or answers a request with an error status.  A file of       *)
(* data/cache exists or not and has a content.  A rankings csv is read in  *)
(* chunks of 250000 rows; the model counts a file in chunks: chunk k of    *)
(* decade d is <<d, k>> and stands for its rows.  A file may hold a chunk  *)
(* that read_csv cannot convert to the dtypes asked for (bad = its         *)
(* number, 0 for none): reading that chunk raises.                         *)
(***************************************************************************)
MaxDecades == 2
MaxChunks == 5
MaxPlayerRows == 1
ChunksPerWrite == 4

Decades == 1..MaxDecades

NoFile == [exists |-> FALSE, content |-> <<>>]

FileWith(c) == [exists |-> TRUE, content |-> c]

\* a rankings csv as served
RankingsCsvs == {[chunks |-> n, bad |-> b] : n \in 1..MaxChunks, b \in 0..MaxChunks}

\* download_file(filename): the cached file, or the body of the response saved to the cache;
\* raise_for_status raises on an error status
DownloadFileResult(cached, served) ==
    IF cached.exists THEN [raised |-> FALSE, file |-> cached, downloaded |-> FALSE]
    ELSE IF served.error THEN [raised |-> TRUE, file |-> cached, downloaded |-> FALSE]
    ELSE [raised |-> FALSE, file |-> FileWith(served.body), downloaded |-> TRUE]

\* ---- load_players ----
\* lines 52-101: read the csv, rename, add the lower-case names
PlayersTable(csv_rows) ==
    [k \in 1..Len(csv_rows) |->
        [player_id |-> csv_rows[k].player_id, first_name |-> csv_rows[k].name_first,
         name_lower_first |-> Lower(csv_rows[k].name_first)]]

\* the call: [outcome, error, table, cache, downloaded, built]
load_players(cache, served) ==
    LET dl == DownloadFileResult(cache.players_csv, served)
        c1 == [cache EXCEPT !.players_csv = dl.file]
    IN  IF dl.raised
        THEN [outcome |-> "raise", error |-> "HTTPError", table |-> <<>>, cache |-> c1,
              downloaded |-> FALSE, built |-> FALSE]
        ELSE IF c1.players_parquet.exists
        THEN [outcome |-> "return", error |-> "none", table |-> c1.players_parquet.content,
              cache |-> c1, downloaded |-> dl.downloaded, built |-> FALSE]
        \* reduce_mem_usage divides by len(df) for the name columns
        ELSE IF dl.file.content = <<>>
        THEN [outcome |-> "raise", error |-> "ZeroDivisionError", table |-> <<>>, cache |-> c1,
              downloaded |-> dl.downloaded, built |-> FALSE]
        ELSE [outcome |-> "return", error |-> "none", table |-> PlayersTable(dl.file.content),
              cache |-> [c1 EXCEPT !.players_parquet = FileWith(PlayersTable(dl.file.content))],
              downloaded |-> dl.downloaded, built |-> TRUE]

\* ---- load_rankings ----
\* the chunk loop of lines 166-195 from chunk k on: every chunk is appended to chunks;
\* with ChunksPerWrite of them they are written to temp_parquet (to_parquet replaces the
\* file) and chunks is cleared
RECURSIVE ChunkLoop(_, _, _, _, _)
ChunkLoop(d, csv, k, chunks, temp) ==
    IF k > csv.chunks THEN [raised |-> FALSE, chunks |-> chunks, temp |-> temp]
    ELSE IF k = csv.bad THEN [raised |-> TRUE, chunks |-> chunks, temp |-> temp]
    ELSE LET more == Append(chunks, <<d, k>>)
         IN  IF Len(more) >= ChunksPerWrite
             THEN ChunkLoop(d, csv, k + 1, <<>>, FileWith(more))
             ELSE ChunkLoop(d, csv, k + 1, more, temp)

\* the body of the decade loop, lines 142-213, for decade d on the state
\* st = [cache, temp_files, downloaded, created]
ProcessDecade(d, st, served) ==
    LET dl == DownloadFileResult(st.cache.csv[d], served[d])
        c1 == [st.cache EXCEPT !.csv[d] = dl.file]
        loop == ChunkLoop(d, dl.file.content, 1, <<>>, NoFile)
        temp == IF ~loop.raised /\ loop.chunks # <<>> THEN FileWith(loop.chunks) ELSE loop.temp
        st1 == [st EXCEPT !.cache = c1, !.downloaded = @ \/ dl.downloaded]
    IN  IF dl.raised THEN st1
        ELSE [st1 EXCEPT !.cache.temp[d] = temp,
                         !.created = IF temp.exists THEN @ \cup {d} ELSE @,
                         !.temp_files = IF loop.raised THEN @ ELSE Append(@, d)]

RECURSIVE DecadeLoop(_, _, _)
DecadeLoop(decades, st, served) ==
    IF decades = <<>> THEN st
    ELSE DecadeLoop(Tail(decades), ProcessDecade(Head(decades), st, served), served)

\* pd.concat([pd.read_parquet(file) for file in temp_files])
CombineTempFiles(cache, temp_files) ==
    Flatten([k \in 1..Len(temp_files) |-> cache.temp[temp_files[k]].content])

\* for file in temp_files: if file.exists(): os.remove(file)
RemoveTempFiles(cache, temp_files) ==
    [cache EXCEPT !.temp = [d \in DOMAIN @ |-> IF d \in Range(temp_files) THEN NoFile ELSE @[d]]]

\* the call: [outcome, error, table, cache, downloaded, built, created]
load_rankings(cache, served, decades, force_download) ==
    IF cache.combined.exists /\ ~force_download
    THEN [outcome |-> "return", error |-> "none", table |-> cache.combined.content,
          cache |-> cache, downloaded |-> FALSE, built |-> FALSE, created |-> {}]
    ELSE LET st == DecadeLoop(decades,
                              [cache |-> cache, temp_files |-> <<>>,
                               downloaded |-> FALSE, created |-> {}],
                              served)
             combined_rankings == CombineTempFiles(st.cache, st.temp_files)
         IN  IF st.temp_files = <<>>
             THEN [outcome |-> "raise", error |-> "ValueError", table |-> <<>>,
                   cache |-> st.cache, downloaded |-> st.downloaded, built |-> FALSE,
                   created |-> st.created]
             ELSE [outcome |-> "return", error |-> "none", table |-> combined_rankings,
                   cache |->
                       RemoveTempFiles([st.cache EXCEPT !.combined = FileWith(combined_rankings)],
                                       st.temp_files),
                   downloaded |-> st.downloaded, built |-> TRUE, created |-> st.created]

\* ---- the operations ----
NoCall ==
    [fn |-> "none", outcome |-> "none", error |-> "none", table |-> <<>>,
     downloaded |-> FALSE, built |-> FALSE, created |-> {}, decades |-> <<>>,
     artifact_absent |-> FALSE]

EmptyCache ==
    [players_csv |-> NoFile, players_parquet |-> NoFile, combined |-> NoFile,
     csv |-> [d \in Decades |-> NoFile], temp |-> [d \in Decades |-> NoFile]]

ServedPlayers ==
    {[error |-> TRUE, body |-> <<>>]}
    \cup {[error |-> FALSE, body |-> b] :
             b \in UNION {[1..n -> {[player_id |-> 1, name_first |-> <<"A", "b">>]}]
                          : n \in 0..MaxPlayerRows}}

ServedRankings ==
    {[error |-> TRUE, body |-> [chunks |-> 1, bad |-> 0]]}
    \cup {[error |-> FALSE, body |-> f] : f \in {x \in RankingsCsvs : x.bad <= x.chunks}}

DecadeLists == {<<d>> : d \in Decades} \cup {[k \in 1..MaxDecades |-> k]}

LoadInit ==
    /\ served_players \in ServedPlayers
    /\ served_rankings \in [Decades -> ServedRankings]
    /\ cache_dir = EmptyCache
    /\ load_call = NoCall

\* players_df = load_players()
LoadPlayers ==
    LET r == load_players(cache_dir, served_players)
    IN  /\ cache_dir' = r.cache
        /\ load_call' = [NoCall EXCEPT !.fn = "load_players", !.outcome = r.outcome,
                            !.error = r.error, !.table = r.table,
                            !.downloaded = r.downloaded, !.built = r.built,
                            !.artifact_absent = ~cache_dir.players_parquet.exists]
        /\ UNCHANGED <<served_players, served_rankings>>

\* load_rankings(decades, force_download)
LoadRankings(decades, force_download) ==
    LET r == load_rankings(cache_dir, served_rankings, decades, force_download)
    IN  /\ cache_dir' = r.cache
        /\ load_call' = [NoCall EXCEPT !.fn = "load_rankings", !.outcome = r.outcome,
                            !.error = r.error, !.table = r.table,
                            !.downloaded = r.downloaded, !.built = r.built,
                            !.created = r.created, !.decades = decades,
                            !.artifact_absent = ~cache_dir.combined.exists]
        /\ UNCHANGED <<served_players, served_rankings>>

LoadFrame ==
    UNCHANGED <<gapVars, compactVars, ingestVars,
                eventsVars, parseVars, combineVars, searchVars, cacheVars, tourVars,
                rankVars,
                memVars,
                playersVars>>

SpecLoadInit ==
    GapInit /\ CompactIdle /\ IngestIdle /\ EventsIdle /\ ParseIdle /\ CombineIdle
    /\ SearchIdle /\ CacheIdle /\ TournamentsIdle /\ LoadInit /\ RankIdle /\ MemIdle /\ PlayersIdle

SpecLoadNext ==
    \/ LoadPlayers /\ LoadFrame
    \/ \E decades \in DecadeLists, force_download \in BOOLEAN :
          LoadRankings(decades, force_download) /\ LoadFrame

SpecLoad == SpecLoadInit /\ [][SpecLoadNext]_vars

\* C23: when the compacted players or rankings artifact is absent, load_players
\* and load_rankings raise a distinguishable not-yet-ingested error; they perform
\* no download, build no artifact and never return an empty table.
C23_MissingArtifactRaises ==
    (load_call.fn \in {"load_players", "load_rankings"} /\ load_call.artifact_absent) =>
        /\ load_call.outcome = "raise"
        /\ load_call.error = "NotYetIngested"
        /\ ~load_call.downloaded
        /\ ~load_call.built

\* the decades of the call whose csv was read without error
ReadWithoutError ==
    {d \in Range(load_call.decades) :
        cache_dir.csv[d].exists /\ cache_dir.csv[d].content.bad = 0}

\* C27: for every decade file read without error, with any number of chunks,
\* every row of the file is in the combined rankings table that load_rankings
\* writes and returns.
C27_NoRowLostInChunking ==
    (load_call.fn = "load_rankings" /\ load_call.built) =>
        \A d \in ReadWithoutError :
            \A k \in 1..cache_dir.csv[d].content.chunks :
                /\ <<d, k>> \in Range(load_call.table)
                /\ <<d, k>> \in Range(cache_dir.combined.content)

\* C30: when a call of load_rankings has ended, by returning or by raising, no
\* temp_<decade>.parquet created during the call remains in the cache directory.
C30_NoTempFileLeft ==
    load_call.fn = "load_rankings" =>
        \A d \in load_call.created : ~cache_dir.temp[d].exists

(***************************************************************************)
(* The rank of a tournament-win marker, update_graph,                      *)
(* application.py:509-519.  graph_player_data is player_data, the rows of  *)
(* the player sorted by ranking_date (line 378); dates are whole days.     *)
(*                                                                         *)
(* application.py imports interpolate_rank_at_date from src.data_loader,   *)
(* which does not define it; the function is modelled from its             *)
(* description: the first rank before all observations, the last rank      *)
(* after all of them, otherwise the linear interpolation between the two   *)
(* bracketing observations weighted by elapsed days, and one of their      *)
(* ranks when they share the date.  A rank between two observations is a   *)
(* fraction num / den with den > 0.                                        *)
(***************************************************************************)
MaxObs == 3
MaxObsDay == 3
MaxObsRank == 3

Observation(d, r) == [ranking_date |-> d, rank |-> r]

\* player_data.sort_values('ranking_date')
PlayerDatas ==
    UNION {{t \in [1..n -> {Observation(d, r) : d \in 1..MaxObsDay, r \in 1..MaxObsRank}] :
               \A k \in 1..(n - 1) : t[k].ranking_date <= t[k + 1].ranking_date}
           : n \in 1..MaxObs}

TargetDates == 0..(MaxObsDay + 1)

NoRank == [none |-> TRUE, num |-> 0, den |-> 1]

RankValue(r) == [none |-> FALSE, num |-> r, den |-> 1]

\* the last row on or before t and the first row on or after t
RowBefore(data, t) ==
    data[SetMax({k \in 1..Len(data) : data[k].ranking_date <= t})]

RowAfter(data, t) ==
    data[SetMin({k \in 1..Len(data) : data[k].ranking_date >= t})]

interpolate_rank_at_date(data, t) ==
    IF t < data[1].ranking_date THEN RankValue(data[1].rank)
    ELSE IF t > data[Len(data)].ranking_date THEN RankValue(data[Len(data)].rank)
    ELSE LET a == RowBefore(data, t)
             b == RowAfter(data, t)
         IN  IF a.ranking_date = b.ranking_date THEN RankValue(a.rank)
             ELSE [none |-> FALSE,
                   num |-> a.rank * (b.ranking_date - a.ranking_date)
                           + (b.rank - a.rank) * (t - a.ranking_date),
                   den |-> b.ranking_date - a.ranking_date]

\* rank_row = player_data[player_data['ranking_date'] <= tournament_end_date].tail(1)
RankRow(data, t) == SelectSeq(data, LAMBDA row : row.ranking_date <= t)

\* lines 510-516: win_y
WinY(data, t) ==
    IF t <= data[Len(data)].ranking_date /\ t >= data[1].ranking_date
    THEN interpolate_rank_at_date(data, t)
    ELSE IF RankRow(data, t) # <<>>
         THEN RankValue(RankRow(data, t)[Len(RankRow(data, t))].rank)
         ELSE NoRank

RankInit ==
    /\ graph_player_data \in PlayerDatas
    /\ tournament_end_date = 0
    /\ win_y = [called |-> FALSE, y |-> NoRank]

\* the marker of a tournament that ended on t
TournamentWinMarker(t) ==
    /\ ~win_y.called
    /\ tournament_end_date' = t
    /\ win_y' = [called |-> TRUE, y |-> WinY(graph_player_data, t)]
    /\ UNCHANGED graph_player_data

RankFrame ==
    UNCHANGED <<gapVars, compactVars, ingestVars,
                eventsVars, parseVars, combineVars, searchVars, cacheVars, tourVars,
                loadVars,
                memVars,
                playersVars>>

SpecRankInit ==
    GapInit /\ CompactIdle /\ IngestIdle /\ EventsIdle /\ ParseIdle /\ CombineIdle
    /\ SearchIdle /\ CacheIdle /\ TournamentsIdle /\ LoadIdle /\ RankInit /\ MemIdle /\ PlayersIdle

SpecRankNext ==
    \E t \in TargetDates : TournamentWinMarker(t) /\ RankFrame

SpecRank == SpecRankInit /\ [][SpecRankNext]_vars

FirstObservation == graph_player_data[1]

LastObservation == graph_player_data[Len(graph_player_data)]

\* y is the rank that the line through observations a and b has on day t
OnLine(y, a, b, t) ==
    /\ ~y.none
    /\ y.num * (b.ranking_date - a.ranking_date) =
          y.den * (a.rank * (b.ranking_date - a.ranking_date)
                   + (b.rank - a.rank) * (t - a.ranking_date))

\* C24: the rank used for a tournament-win marker is the first observation's
\* rank when the target date is before all observations, the last
\* observation's rank when it is after all of them, and otherwise the linear
\* interpolation between the two bracketing observations weighted by elapsed
\* days; two bracketing observations on the same date give one of their ranks.
C24_RankAtTargetDate ==
    win_y.called =>
        LET t == tournament_end_date
            a == RowBefore(graph_player_data, t)
            b == RowAfter(graph_player_data, t)
        IN  IF t < FirstObservation.ranking_date
            THEN win_y.y = RankValue(FirstObservation.rank)
            ELSE IF t > LastObservation.ranking_date
            THEN win_y.y = RankValue(LastObservation.rank)
            ELSE IF a.ranking_date = b.ranking_date
            THEN \E k \in 1..Len(graph_player_data) :
                    /\ graph_player_data[k].ranking_date = t
                    /\ win_y.y = RankValue(graph_player_data[k].rank)
            ELSE OnLine(win_y.y, a, b, t)

(***************************************************************************)
(* reduce_mem_usage, data_loader.py:321-387, on an integer column.  The    *)
(* columns of a table are converted one by one, so the model hands the     *)
(* function one column: its name, its dtype (the width in bits of a signed *)
(* integer) and its values.  astype to a narrower integer keeps the low    *)
(* bits of a value that does not fit.  The values of the model are within  *)
(* 32 bits.                                                                *)
(***************************************************************************)
MaxColumnLen == 2
Int8Max == 127
Int32Max == 2147483647

\* np.iinfo(dtype).max and .min
IInfoMax(w) == CASE w = 8 -> Int8Max [] w = 16 -> Int16Max [] OTHER -> Int32Max

IInfoMin(w) == (0 - IInfoMax(w)) - 1

\* value.astype(intN)
AsTypeWidth(v, w) ==
    IF v >= IInfoMin(w) /\ v <= IInfoMax(w) THEN v
    ELSE (((v % (2 * (IInfoMax(w) + 1))) + IInfoMax(w) + 1) % (2 * (IInfoMax(w) + 1)))
         + IInfoMin(w)

ColumnMin(values) == SetMin(Range(values))

ColumnMax(values) == SetMax(Range(values))

\* lines 369-375: the width of a column that is not in type_optimizations
GeneralWidth(col) ==
    LET c_min == ColumnMin(col.values)
        c_max == ColumnMax(col.values)
    IN  IF c_min > IInfoMin(8) /\ c_max < IInfoMax(8) THEN 8
        ELSE IF c_min > IInfoMin(16) /\ c_max < IInfoMax(16) THEN 16
        ELSE IF c_min > IInfoMin(32) /\ c_max < IInfoMax(32) THEN 32
        ELSE col.dtype

\* type_optimizations: player_id to int32, rank to int16; the other columns by their values
reduce_mem_usage(col) ==
    LET w == IF col.name = "player_id" THEN 32
             ELSE IF col.name = "rank" THEN 16
             ELSE GeneralWidth(col)
    IN  [name |-> col.name, dtype |-> w,
         values |-> [k \in 1..Len(col.values) |-> AsTypeWidth(col.values[k], w)]]

\* ---- the inputs ----
ColumnNames == {"player_id", "rank", "points"}

ColumnValues ==
    {0, 1, Int8Max - 1, Int8Max, Int8Max + 1, (0 - Int8Max), (0 - Int8Max) - 1,
     (0 - Int8Max) - 2, Int16Max - 1, Int16Max, Int16Max + 1, (0 - Int16Max) - 1,
     (0 - Int16Max) - 2, Int32Max - 1, Int32Max, (0 - Int32Max), (0 - Int32Max) - 1}

\* the dtype a column has when it reaches the function: load_rankings reads rank as
\* int16 and player as int32, load_players reads player_id as int32 (lines 57-58, 152-155)
DtypeRead(nm) == IF nm = "rank" THEN 16 ELSE IF nm = "player_id" THEN 32 ELSE 64

Columns ==
    UNION {{c \in {[name |-> nm, dtype |-> DtypeRead(nm), values |-> vs] :
                      nm \in ColumnNames, vs \in [1..n -> ColumnValues]} :
               \A k \in 1..n : c.dtype = 64 \/ (c.values[k] >= IInfoMin(c.dtype)
                                                /\ c.values[k] <= IInfoMax(c.dtype))}
           : n \in 1..MaxColumnLen}

MemInit ==
    /\ df_column \in Columns
    /\ reduced = [called |-> FALSE, column |-> [name |-> "", dtype |-> 64, values |-> <<>>]]

\* df = reduce_mem_usage(df)
ReduceMemUsage ==
    /\ ~reduced.called
    /\ reduced' = [called |-> TRUE, column |-> reduce_mem_usage(df_column)]
    /\ UNCHANGED df_column

MemFrame ==
    UNCHANGED <<gapVars, compactVars, ingestVars,
                eventsVars, parseVars, combineVars, searchVars, cacheVars, tourVars,
                loadVars, rankVars,
                playersVars>>

SpecMemInit ==
    GapInit /\ CompactIdle /\ IngestIdle /\ EventsIdle /\ ParseIdle /\ CombineIdle
    /\ SearchIdle /\ CacheIdle /\ TournamentsIdle /\ LoadIdle /\ RankIdle /\ MemInit /\ PlayersIdle

SpecMemNext == ReduceMemUsage /\ MemFrame

SpecMem == SpecMemInit /\ [][SpecMemNext]_vars

\* the width w holds every value of the column
Holds(w, values) ==
    \/ w = 64
    \/ \A k \in 1..Len(values) : values[k] >= IInfoMin(w) /\ values[k] <= IInfoMax(w)

SmallestWidth(values) == SetMin({w \in {8, 16, 32, 64} : Holds(w, values)})

\* C25: every integer column gets the smallest signed width among 8, 16, 32
\* and 64 bits that holds all its values (rank is forced to 16 bits and
\* player_id to 32 bits), and no value of any column is changed.
C25_IntegerNarrowing ==
    reduced.called =>
        /\ reduced.column.values = df_column.values
        /\ df_column.name \notin {"rank", "player_id"} =>
              reduced.column.dtype = SmallestWidth(df_column.values)
        /\ df_column.name = "rank" => reduced.column.dtype = 16
        /\ df_column.name = "player_id" => reduced.column.dtype = 32

(***************************************************************************)
(* The players store: update_players_from_rankings,                        *)
(* atp_player_scraper.py:117-223, over data/raw/players/players_raw.parquet *)
(* and the players section of preprocess_all, preprocess_data.py:249-290.  *)
(*                                                                         *)
(* A row of the ranking files has the atp_id and atp_name of the profile   *)
(* link, both NaN (Null) without one, and a rank.  The files are listed    *)
(* in the order glob gives; a new file may come anywhere in it.  A profile *)
(* url is the pair of the name and the id it is formatted from.  A row of  *)
(* the store is the details dict of one scraped profile.                   *)
(***************************************************************************)
MaxRankingRows == 3
MaxPlayerRuns == 2

PlayerNames == {<<"a">>, <<"b", ".">>}

PlayerRankingRows ==
    {[atp_id |-> Null, atp_name |-> <<>>, rank |-> r] : r \in 1..MaxRank}
    \cup {[atp_id |-> i, atp_name |-> n, rank |-> r] :
             i \in 1..MaxPlayer, n \in PlayerNames, r \in 1..MaxRank}

\* f"https://www.atptour.com/en/players/{row['atp_name'].replace('.', '')}/{row['atp_id']}/overview"
PlayerUrl(row) ==
    [name |-> SelectSeq(row.atp_name, LAMBDA c : c # "."), id |-> row.atp_id]

\* the details scrape_atp_player_details returns for the url, with player_url added:
\* atp_name = url_parts[-3], atp_id = url_parts[-2]
PlayerDetails(url) ==
    [atp_id |-> url.id, atp_name |-> url.name, full_name |-> url.id, player_url |-> url]

\* df.drop_duplicates('atp_id'): the first row of every atp_id, NaN included
RECURSIVE DropDuplicateIds(_)
DropDuplicateIds(rows) ==
    IF rows = <<>> THEN <<>>
    ELSE LET init == DropDuplicateIds(SubSeq(rows, 1, Len(rows) - 1))
             last == rows[Len(rows)]
         IN  IF \E k \in 1..Len(init) : init[k].atp_id = last.atp_id THEN init
             ELSE Append(init, last)

\* the ids of a column, NaN dropped: set(df['atp_id'].dropna().unique())
IdsOf(rows) == {rows[k].atp_id : k \in 1..Len(rows)} \ {Null}

\* the best rank of an id among the rows
BestRankOf(rows, id) == SetMin({rows[k].rank : k \in {j \in 1..Len(rows) : rows[j].atp_id = id}})

\* prioritize_players(rankings_df, n, exclude_ids): the rows of the excluded ids go, the
\* rest is sorted by rank and date, one entry per atp_id is kept and the first n ids are
\* returned; the model has no dates, ids of equal best rank come in any order
prioritize_players(rows, n, exclude_ids) ==
    LET left == SelectSeq(rows, LAMBDA r : r.atp_id \notin exclude_ids)
        ids == {left[k].atp_id : k \in 1..Len(left)}
    IN  {SubSeq(o, 1, IF Len(o) > n THEN n ELSE Len(o)) :
            o \in {p \in [1..Cardinality(ids) -> ids] :
                      /\ \A i, j \in DOMAIN p : i # j => p[i] # p[j]
                      /\ \A i, j \in DOMAIN p :
                            i < j => BestRankOf(left, p[i]) <= BestRankOf(left, p[j])}}

\* lines 161-179: the (url, atp_id) of the players to look at
player_urls_with_ids(rows, priority_ids, max_players) ==
    LET player_urls_df ==
            IF max_players # Null
            THEN DropDuplicateIds(SelectSeq(rows, LAMBDA r : r.atp_id \in Range(priority_ids)))
            ELSE DropDuplicateIds(rows)
        named == SelectSeq(player_urls_df, LAMBDA r : r.atp_name # <<>>)
    IN  [k \in 1..Len(named) |-> PlayerUrl(named[k])]

new_urls_with_ids_UrlOnly(urls, store, max_players) ==
    LET known_urls == {store[k].player_url : k \in 1..Len(store)}
        new == SelectSeq(urls, LAMBDA u : u \notin known_urls)
    IN  IF max_players # Null /\ Len(new) > max_players
        THEN SubSeq(new, 1, max_players) ELSE new

\* lines 182-187: not known by url and not known by id, the first max_players of them
new_urls_with_ids(urls, store, max_players) ==
    LET known_urls == {store[k].player_url : k \in 1..Len(store)}
        known_ids == IdsOf(store)
        new == SelectSeq(urls, LAMBDA u : u \notin known_urls /\ u.id \notin known_ids)
    IN  IF max_players # Null /\ Len(new) > max_players
        THEN SubSeq(new, 1, max_players) ELSE new

\* lines 191-199: the details of the urls whose scrape gave details
new_players(urls, found) ==
    LET got == SelectSeq(urls, LAMBDA u : u \in found)
    IN  [k \in 1..Len(got) |-> PlayerDetails(got[k])]

CombinedNewOnly(store, new_df) == new_df

\* lines 201-215: pd.concat([players_df, new_df]) or new_df or players_df
Combined(store, new_df) ==
    IF new_df # <<>> THEN (IF store # <<>> THEN store \o new_df ELSE new_df) ELSE store

\* lines 218-220
Remaining(rows, combined, store) ==
    Cardinality(IdsOf(rows) \ (IF combined # <<>> THEN IdsOf(combined) ELSE IdsOf(store)))

\* players.select(keep_cols).unique(): player_url is not among keep_cols
PlayersKeepCols(r) == [atp_id |-> r.atp_id, atp_name |-> r.atp_name, full_name |-> r.full_name]

NoPlayersRun ==
    [done |-> FALSE, rankings |-> <<>>, before |-> <<>>, urls |-> <<>>, returned |-> 0,
     new |-> <<>>]

PlayersInit ==
    /\ player_rankings = <<>>
    /\ players_raw = <<>>
    /\ atp_players_parquet = [written |-> FALSE, rows |-> <<>>]
    /\ players_run = NoPlayersRun
    /\ players_runs = 0

\* update_rankings saves one more ranking file; glob lists it at position k
AddRankingFile(row, k) ==
    /\ Len(player_rankings) < MaxRankingRows
    /\ k \in 0..Len(player_rankings)
    /\ player_rankings' =
          SubSeq(player_rankings, 1, k) \o <<row>>
          \o SubSeq(player_rankings, k + 1, Len(player_rankings))
    /\ UNCHANGED <<players_raw, atp_players_parquet, players_run, players_runs>>

\* update_players_from_rankings(max_players=...) with no ranking file: return 0
UpdatePlayersNoRankings ==
    /\ players_runs < MaxPlayerRuns
    /\ player_rankings = <<>>
    /\ players_run' = [NoPlayersRun EXCEPT !.done = TRUE, !.before = players_raw]
    /\ players_runs' = players_runs + 1
    /\ UNCHANGED <<player_rankings, players_raw, atp_players_parquet>>

\* update_players_from_rankings(max_players=...); found: the urls whose page gave details
UpdatePlayersFromRankings(max_players, priority_ids, found) ==
    LET urls == new_urls_with_ids(
                    player_urls_with_ids(player_rankings, priority_ids, max_players),
                    players_raw, max_players)
        new_df == new_players(urls, found)
        combined == Combined(players_raw, new_df)
    IN  /\ players_runs < MaxPlayerRuns
        /\ player_rankings # <<>>
        /\ found \subseteq Range(urls)
        /\ players_raw' = IF new_df # <<>> THEN combined ELSE players_raw
        /\ players_run' = [done |-> TRUE, rankings |-> player_rankings,
                           before |-> players_raw, urls |-> urls,
                           returned |-> Remaining(player_rankings, combined, players_raw),
                           new |-> new_df]
        /\ players_runs' = players_runs + 1
        /\ UNCHANGED <<player_rankings, atp_players_parquet>>

\* preprocess_all, players section: if os.path.exists(players_raw_path): ... write_parquet
PreprocessAllPlayers ==
    /\ players_raw # <<>>
    /\ atp_players_parquet' =
          [written |-> TRUE,
           rows |-> SetToSeq({PlayersKeepCols(players_raw[k]) : k \in 1..Len(players_raw)})]
    /\ UNCHANGED <<player_rankings, players_raw, players_run, players_runs>>

PlayerUrls == {PlayerUrl(r) : r \in {x \in PlayerRankingRows : x.atp_id # Null}}

PlayersFrame ==
    UNCHANGED <<gapVars, compactVars, ingestVars,
                eventsVars, parseVars, combineVars, searchVars, cacheVars, tourVars,
                loadVars, rankVars, memVars>>

SpecPlayersInit ==
    GapInit /\ CompactIdle /\ IngestIdle /\ EventsIdle /\ ParseIdle /\ CombineIdle
    /\ SearchIdle /\ CacheIdle /\ TournamentsIdle /\ LoadIdle /\ RankIdle /\ MemIdle
    /\ PlayersInit

SpecPlayersNext ==
    \/ \E row \in PlayerRankingRows, k \in 0..MaxRankingRows :
          AddRankingFile(row, k) /\ PlayersFrame
    \/ UpdatePlayersNoRankings /\ PlayersFrame
    \/ \E max_players \in {Null, 1}, found \in SUBSET PlayerUrls :
          \E priority_ids \in
                prioritize_players(player_rankings,
                                   IF max_players = Null THEN 0 ELSE max_players,
                                   IdsOf(players_raw)) :
             UpdatePlayersFromRankings(max_players, priority_ids, found) /\ PlayersFrame
    \/ PreprocessAllPlayers /\ PlayersFrame

SpecPlayers == SpecPlayersInit /\ [][SpecPlayersNext]_vars

\* at most one row per atp_id
UniqueAtpIds(rows) ==
    \A i, j \in 1..Len(rows) : rows[i].atp_id = rows[j].atp_id => i = j

\* C26: after any runs of update_players_from_rankings, the players store and
\* the table preprocess_all writes from it hold at most one row per atp_id,
\* and a run scrapes and appends no player who already had a row.
C26_PlayerIdUnique ==
    /\ UniqueAtpIds(players_raw)
    /\ atp_players_parquet.written => UniqueAtpIds(atp_players_parquet.rows)
    /\ players_run.done =>
          \A k \in 1..Len(players_run.urls) :
              players_run.urls[k].id \notin IdsOf(players_run.before)

\* a second run that scraped a player, with the first run's rows in the
\* store, the rankings naming a stored player under another name as well,
\* and the compacted table written
C26_Witness ==
    /\ players_run.done
    /\ players_run.before # <<>>
    /\ players_run.new # <<>>
    /\ atp_players_parquet.written
    /\ Len(atp_players_parquet.rows) >= 2
    /\ \E k \in 1..Len(player_rankings) :
          /\ player_rankings[k].atp_id \in IdsOf(players_run.before)
          /\ PlayerUrl(player_rankings[k]) \notin
                {players_raw[j].player_url : j \in 1..Len(players_raw)}

\* C29: every row of the store before a run of update_players_from_rankings
\* is in the store, unchanged, after it, whether the run scraped new players,
\* none, or had every scrape fail; and the number returned is the count of
\* distinct player ids of the ranking files without a row in the store after
\* the run.
C29_StoreAppendOnly ==
    players_run.done =>
        /\ Len(players_run.before) <= Len(players_raw)
        /\ SubSeq(players_raw, 1, Len(players_run.before)) = players_run.before
        /\ players_run.returned =
              Cardinality(IdsOf(players_run.rankings) \ IdsOf(players_raw))

\* a run over a store that had a row, in which every scrape failed and which
\* returned 1 for the player still without a row
C29_Witness ==
    /\ players_run.done
    /\ players_run.before # <<>>
    /\ players_run.urls # <<>>
    /\ players_run.new = <<>>
    /\ players_run.returned = 1

=============================================================================
